---- MODULE Spec2Model ----
(***************************************************************************)
(* csafetensors: the pure C11 safetensors loader (src/unnamed/part_001)    *)
(* with its embedded JSON reader, and the public header                    *)
(* (src/fuzzer/fuzz-main.cc, lines 20-275 hold csafetensors.h).            *)
(*                                                                         *)
(* Bytes are integers 0..255, texts are sequences of bytes, and a 64-bit   *)
(* unsigned value (uint64_t, size_t) is its eight bytes, least significant *)
(* first, so that every width of the C code is kept exactly.               *)
(***************************************************************************)
EXTENDS Integers, Sequences, FiniteSets, TLC

(***************************************************************************)
(* Natural numbers of any size: little-endian sequences of bytes.          *)
(***************************************************************************)
Min(S) == CHOOSE x \in S : \A y \in S : x <= y

Max(S) == CHOOSE x \in S : \A y \in S : y <= x

\* limb i of a, 0 beyond its length
Limb(a, i) == IF i <= Len(a) THEN a[i] ELSE 0

\* number of significant limbs
BigLen(a) == IF \A i \in 1..Len(a) : a[i] = 0 THEN 0 ELSE Max({i \in 1..Len(a) : a[i] # 0})

BigEq(a, b) == \A i \in 1..Max({Len(a), Len(b), 1}) : Limb(a, i) = Limb(b, i)

BigLt(a, b) ==
    \E i \in 1..Max({Len(a), Len(b), 1}) :
        /\ Limb(a, i) < Limb(b, i)
        /\ \A j \in (i + 1)..Max({Len(a), Len(b), 1}) : Limb(a, j) = Limb(b, j)

BigLe(a, b) == ~BigLt(b, a)

\* carry propagation over column sums, least significant column first
RECURSIVE Carry(_, _, _, _)
Carry(cols, k, c, acc) ==
    IF k > Len(cols)
    THEN IF c = 0 THEN acc ELSE Carry(<<c>>, 1, 0, acc)
    ELSE Carry(cols, k + 1, (cols[k] + c) \div 256, Append(acc, (cols[k] + c) % 256))

RECURSIVE SumTo(_, _, _)
SumTo(f, lo, hi) == IF lo > hi THEN 0 ELSE f[lo] + SumTo(f, lo + 1, hi)

BigAdd(a, b) ==
    Carry([i \in 1..Max({Len(a), Len(b), 1}) |-> Limb(a, i) + Limb(b, i)], 1, 0, <<>>)

\* column k of the schoolbook product: the sum of a[i] * b[j] with i + j = k + 1
Column(a, b, k) ==
    SumTo([i \in 1..Len(a) |-> IF k - i + 1 >= 1 /\ k - i + 1 <= Len(b) THEN a[i] * b[k - i + 1] ELSE 0],
          1, Len(a))

BigMul(a, b) ==
    IF Len(a) = 0 \/ Len(b) = 0 THEN <<0>>
    ELSE Carry([k \in 1..(Len(a) + Len(b) - 1) |-> Column(a, b, k)], 1, 0, <<>>)

\* a small natural (below 2^31) as a number of any size
RECURSIVE BigOf(_)
BigOf(n) == IF n < 256 THEN <<n>> ELSE <<n % 256>> \o BigOf(n \div 256)

(***************************************************************************)
(* uint64_t / size_t: exactly eight bytes, arithmetic modulo 2^64.         *)
(***************************************************************************)
U64Trunc(a) == [i \in 1..8 |-> Limb(a, i)]

U64(n) == U64Trunc(BigOf(n))

U64Zero == [i \in 1..8 |-> 0]

U64Max == [i \in 1..8 |-> 255]

\* 2^63
U64Top == [i \in 1..8 |-> IF i = 8 THEN 128 ELSE 0]

\* the value of a 64-bit word that is below 2^31
ToNat(a) == a[1] + 256 * a[2] + 65536 * a[3] + 16777216 * a[4]

U64Add(a, b) == U64Trunc(BigAdd(a, b))

U64Mul(a, b) == U64Trunc(BigMul(a, b))

\* two's complement: 2^64 - a (mod 2^64)
U64Neg(a) == U64Add([i \in 1..8 |-> 255 - a[i]], <<1>>)

U64Sub(a, b) == U64Add(a, U64Neg(b))

U64Lt(a, b) == BigLt(a, b)

U64Le(a, b) == BigLe(a, b)

(***************************************************************************)
(* Texts.  A header is written as a TLA+ string and turned into bytes.     *)
(***************************************************************************)
\* the printable ASCII characters 32..95 and 97..126
AsciiLow == " !\"#$%&'()*+,-./0123456789:;<=>?@ABCDEFGHIJKLMNOPQRSTUVWXYZ[\\]^_"

AsciiHigh == "abcdefghijklmnopqrstuvwxyz{|}~"

CharCode ==
    [c \in {SubSeq(AsciiLow, k, k) : k \in 1..Len(AsciiLow)}
            \cup {SubSeq(AsciiHigh, k, k) : k \in 1..Len(AsciiHigh)} |->
        IF \E k \in 1..Len(AsciiLow) : SubSeq(AsciiLow, k, k) = c
        THEN 31 + (CHOOSE k \in 1..Len(AsciiLow) : SubSeq(AsciiLow, k, k) = c)
        ELSE 96 + (CHOOSE k \in 1..Len(AsciiHigh) : SubSeq(AsciiHigh, k, k) = c)]

Bytes(s) == [i \in 1..Len(s) |-> CharCode[SubSeq(s, i, i)]]

\* n copies of byte c
Rep(c, n) == [i \in 1..n |-> c]

\* strlen(s): the number of bytes before the first NUL
StrLen(s) == IF \A i \in 1..Len(s) : s[i] # 0 THEN Len(s) ELSE Min({i \in 1..Len(s) : s[i] = 0}) - 1

\* the C string held in a char buffer
CStr(s) == SubSeq(s, 1, StrLen(s))

\* strcmp(a, b) == 0
StrEq(a, b) == CStr(a) = CStr(b)

\* strncpy(dst, src, n) into a zero-filled buffer of more than n bytes, read back as a C string
StrNCpy(src, n) == SubSeq(src, 1, IF StrLen(src) <= n THEN StrLen(src) ELSE n)

(***************************************************************************)
(* The JSON reader.                                                        *)
(*                                                                         *)
(* A json_parser_t is the record p: data is the caller's buffer, input,    *)
(* pos and end are offsets into it (pointers in the C code), error is the  *)
(* message buffer.  allocs counts the calls of malloc/calloc/realloc made  *)
(* so far and fail is the number of the call that returns NULL (0: none).  *)
(* live counts the heap blocks the reader has allocated and not freed,     *)
(* lost those of them whose only pointer was overwritten (by the NULL of a *)
(* failed realloc).                                                        *)
(* A json_value_t is a record with a type field; NullPtr is the NULL       *)
(* pointer.  Every parse function returns [v, p]: its result and the       *)
(* parser after the call; messages are kept as their format strings.       *)
(* A function of the C code is written as the                              *)
(* chain of its steps, each step an operator over the values of the steps  *)
(* before it; the steps of a function are defined last step first.         *)
(***************************************************************************)
Ch(c) == CharCode[c]

\* *(data + i); outside the buffer the read is undefined and modelled as 0
Peek(p, i) == IF i >= 0 /\ i < Len(p.data) THEN p.data[i + 1] ELSE 0

Cur(p) == Peek(p, p.pos)

Advance(p, n) == [p EXCEPT !.pos = @ + n]

\* the next call of malloc, calloc or realloc returns NULL
AllocFails(p) == p.fail = p.allocs + 1

\* the parser after one call of malloc or calloc: a new block unless the call fails
Alloc(p) == [p EXCEPT !.allocs = @ + 1, !.live = IF AllocFails(p) THEN @ ELSE @ + 1]

\* the parser after realloc(old, ...): a new block when old is NULL and the call succeeds;
\* the block stays as it is when the call fails
Realloc(p, old) ==
    [p EXCEPT !.allocs = @ + 1, !.live = IF AllocFails(p) \/ old THEN @ ELSE @ + 1]

\* the parser after free() of one block
FreeBlock(p) == [p EXCEPT !.live = @ - 1]

NullPtr == [type |-> "NULL"]

IsNull(v) == v.type = "NULL"

Ret(v, p) == [v |-> v, p |-> p]

\* the heap blocks of a value: the json_value_t, the characters of a string, the items
\* block of an array and its items, the pairs block of an object, its keys and values
RECURSIVE Blocks(_)
Blocks(v) ==
    CASE v.type = "NULL" -> 0
      [] v.type = "string" -> 2
      [] v.type = "array" ->
            1 + (IF v.capacity > 0 THEN 1 ELSE 0)
              + SumTo([i \in 1..Len(v.items) |-> Blocks(v.items[i])], 1, Len(v.items))
      [] v.type = "object" ->
            1 + (IF v.capacity > 0 THEN 1 ELSE 0)
              + SumTo([i \in 1..Len(v.pairs) |-> 1 + Blocks(v.pairs[i].value)], 1, Len(v.pairs))
      [] OTHER -> 1

\* json_free_value(v)
json_free_value(p, v) == [p EXCEPT !.live = @ - Blocks(v)]

\* snprintf(p->error, ...); return NULL
Fail(p, msg) == [v |-> NullPtr, p |-> [p EXCEPT !.error = msg]]

\* the first offset in lo..hi-1 whose byte is not in S, hi when there is none:
\* where a loop "while (pos < end && *pos in S) pos++" started at lo stops
RECURSIVE RunEnd(_, _, _, _)
RunEnd(p, lo, hi, S) ==
    IF lo >= hi THEN hi
    ELSE IF \A i \in lo..((lo + hi - 1) \div 2) : Peek(p, i) \in S
    THEN RunEnd(p, ((lo + hi - 1) \div 2) + 1, hi, S)
    ELSE RunEnd(p, lo, (lo + hi - 1) \div 2, S)

WhiteSpace == {32, 9, 10, 13}

Digits == 48..57

json_skip_whitespace(p) == [p EXCEPT !.pos = RunEnd(p, p.pos, p.end, WhiteSpace)]

json_match(p, str) ==
    /\ p.end - p.pos >= Len(str)
    /\ \A i \in 1..Len(str) : Peek(p, p.pos + i - 1) = str[i]

\* json_alloc_value(type) and the fields the caller sets: NULL when calloc fails
json_alloc_value(p, v) == IF AllocFails(p) THEN Ret(NullPtr, Alloc(p)) ELSE Ret(v, Alloc(p))

\* "if (!v) { snprintf(p->error, ...); return NULL; }" after json_alloc_value
Allocated(a) == IF IsNull(a.v) THEN Fail(a.p, "Memory allocation failed") ELSE a

json_hex_digit(c) ==
    IF c >= 48 /\ c <= 57 THEN c - 48
    ELSE IF c >= 97 /\ c <= 102 THEN 10 + c - 97
    ELSE IF c >= 65 /\ c <= 70 THEN 10 + c - 65
    ELSE -1

\* the capacity after the doublings that make room for n bytes: cap, 2 cap, 4 cap, ...
\* until n < cap
RECURSIVE GrowCap(_, _)
GrowCap(cap, n) == IF n < cap THEN cap ELSE GrowCap(2 * cap, n)

RECURSIVE Doublings(_, _)
Doublings(cap, n) == IF n < cap THEN 0 ELSE 1 + Doublings(2 * cap, n)

\* the capacity after k doublings
RECURSIVE Doubled(_, _)
Doubled(cap, k) == IF k = 0 THEN cap ELSE Doubled(2 * cap, k - 1)

\* the string under construction: [ok, p, str, cap]; ok FALSE after a failure
Building(ok, p, str, cap) == [ok |-> ok, p |-> p, str |-> str, cap |-> cap]

\* bytes appended after k calls of realloc, the first of which to fail ends the append:
\* str is then NULL and the block it pointed to is lost
Grown(p, str, cap, bytes, k) ==
    IF p.fail > p.allocs /\ p.fail <= p.allocs + k
    THEN Building(FALSE, [p EXCEPT !.allocs = p.fail, !.lost = @ + 1], str, cap)
    ELSE Building(TRUE, [p EXCEPT !.allocs = @ + k], str \o bytes, GrowCap(cap, Len(str) + Len(bytes)))

\* Appending bytes to the buffer str of capacity cap, doubled by realloc while the new
\* length does not fit
AppendBytes(p, str, cap, bytes) == Grown(p, str, cap, bytes, Doublings(cap, Len(str) + Len(bytes)))

Utf8(codepoint) ==
    IF codepoint < 128 THEN <<codepoint>>
    ELSE IF codepoint < 2048
    THEN <<192 + (codepoint \div 64), 128 + (codepoint % 64)>>
    ELSE IF codepoint < 65536
    THEN <<224 + (codepoint \div 4096), 128 + ((codepoint \div 64) % 64), 128 + (codepoint % 64)>>
    ELSE <<240 + (codepoint \div 262144), 128 + ((codepoint \div 4096) % 64),
           128 + ((codepoint \div 64) % 64), 128 + (codepoint % 64)>>

\* the value of four hex digits d (each json_hex_digit of a byte), -1 when one is not a digit
HexValue(d) ==
    IF \E i \in 1..4 : d[i] < 0 THEN -1 ELSE 4096 * d[1] + 256 * d[2] + 16 * d[3] + d[4]

Hex4(p, at) == HexValue([i \in 1..4 |-> json_hex_digit(Peek(p, at + i - 1))])

\* json_parse_unicode_escape, p after "\u": the low half of a surrogate pair, p at its digits
UnicodeLow(p, str, cap, codepoint, low) ==
    IF low < 0 THEN Building(FALSE, p, str, cap)
    ELSE IF low < 56320 \/ low > 57343 THEN Building(FALSE, Advance(p, 4), str, cap)
    ELSE AppendBytes(Advance(p, 4), str, cap, Utf8(65536 + (codepoint - 55296) * 1024 + (low - 56320)))

\* p after the four digits of a high surrogate
UnicodePair(p, str, cap, codepoint) ==
    IF p.end - p.pos < 6 THEN Building(FALSE, p, str, cap)
    ELSE IF Peek(p, p.pos) # 92 \/ Peek(p, p.pos + 1) # 117 THEN Building(FALSE, p, str, cap)
    ELSE UnicodeLow(Advance(p, 2), str, cap, codepoint, Hex4(p, p.pos + 2))

UnicodeHigh(p, str, cap, codepoint) ==
    IF codepoint < 0 THEN Building(FALSE, p, str, cap)
    ELSE IF codepoint >= 55296 /\ codepoint <= 56319 THEN UnicodePair(Advance(p, 4), str, cap, codepoint)
    ELSE AppendBytes(Advance(p, 4), str, cap, Utf8(codepoint))

json_parse_unicode_escape(p, str, cap) ==
    IF p.end - p.pos < 4 THEN Building(FALSE, p, str, cap)
    ELSE UnicodeHigh(p, str, cap, Hex4(p, p.pos))

\* the bytes that the loop of json_parse_string copies unchanged
PlainBytes == (32..255) \ {34, 92}

\* the escapes of one character: " \ / b f n r t
Escapes ==
    (34 :> 34) @@ (92 :> 92) @@ (47 :> 47) @@ (98 :> 8) @@ (102 :> 12) @@ (110 :> 10) @@
    (114 :> 13) @@ (116 :> 9)

RECURSIVE StringLoop(_, _, _)

\* after an append b: the next iteration, or the return of NULL with the message msg
StringStep(b, msg) ==
    IF b.ok THEN StringLoop(b.p, b.str, b.cap) ELSE [b EXCEPT !.p.error = msg]

\* q after the backslash
StringEscape(q, str, cap) ==
    IF q.pos >= q.end THEN Building(FALSE, [q EXCEPT !.error = "Unexpected end of string"], str, cap)
    ELSE IF Cur(q) = 117
    THEN StringStep(json_parse_unicode_escape(Advance(q, 1), str, cap), "Invalid unicode escape")
    ELSE IF Cur(q) \in DOMAIN Escapes
    THEN StringStep(AppendBytes(Advance(q, 1), str, cap, <<Escapes[Cur(q)]>>), "Memory allocation failed")
    ELSE Building(FALSE, [q EXCEPT !.error = "Invalid escape character"], str, cap)

\* b: the append of a run of plain bytes that starts at p.pos.  When a realloc fails the
\* cursor is after the byte that found the buffer full: the byte that makes len + 1 reach
\* the capacity the doublings before it left
StoppedAt(p, len, cap, b) ==
    IF b.ok THEN b ELSE [b EXCEPT !.p.pos = p.pos + Doubled(cap, p.fail - p.allocs - 1) - len]

\* stop: where the run of plain bytes that starts at p.pos ends
StringRun(p, str, cap, stop) ==
    IF stop > p.pos
    THEN StringStep(StoppedAt(p, Len(str), cap,
                              AppendBytes([p EXCEPT !.pos = stop], str, cap,
                                          SubSeq(p.data, p.pos + 1, stop))),
                    "Memory allocation failed")
    ELSE IF p.pos >= p.end \/ Cur(p) = 34 THEN Building(TRUE, p, str, cap)
    ELSE IF Cur(p) < 32
    THEN Building(FALSE, [p EXCEPT !.error = "Invalid control character in string"], str, cap)
    ELSE StringEscape(Advance(p, 1), str, cap)

\* The while loop of json_parse_string from p.pos on, a run of plain bytes at a time
StringLoop(p, str, cap) == StringRun(p, str, cap, RunEnd(p, p.pos, p.end, PlainBytes))

\* "if (!v) { free(str); snprintf(p->error, ...); return NULL; }" after json_alloc_value
StringValue(a) ==
    IF IsNull(a.v) THEN Fail(FreeBlock(a.p), "Memory allocation failed") ELSE a

\* after the loop.  A return of NULL from inside the loop has called free(str), except
\* after a failed realloc: str is NULL then
StringClose(b) ==
    IF ~b.ok THEN Ret(NullPtr, IF b.p.lost > 0 THEN b.p ELSE FreeBlock(b.p))
    ELSE IF b.p.pos >= b.p.end \/ Cur(b.p) # 34 THEN Fail(FreeBlock(b.p), "Unterminated string")
    ELSE StringValue(json_alloc_value(Advance(b.p, 1), [type |-> "string", string |-> b.str]))

json_parse_string(p) ==
    IF Cur(p) # 34 THEN Fail(p, "Expected '\"' at position %zu")
    ELSE IF AllocFails(p) THEN Fail(Alloc(Advance(p, 1)), "Memory allocation failed")
    ELSE StringClose(StringLoop(Alloc(Advance(p, 1)), <<>>, 64))

(***************************************************************************)
(* strtod and the cast (size_t)double.                                     *)
(*                                                                         *)
(* The loader uses a JSON number only through (size_t)number, so a double  *)
(* is kept as what that cast reads: its sign, the integer part of its      *)
(* magnitude (64 bits) and whether the magnitude is 2^64 or more.  strtod  *)
(* rounds the decimal text to the nearest double (53 significant bits,     *)
(* ties to even); the rounding is computed exactly.                        *)
(***************************************************************************)
Square(a) == BigMul(a, a)

\* 10^k
RECURSIVE Pow10Big(_)
Pow10Big(k) ==
    IF k = 0 THEN <<1>>
    ELSE IF k % 2 = 1 THEN BigMul(<<10>>, Pow10Big(k - 1))
    ELSE Square(Pow10Big(k \div 2))

\* the decimal digits ds (values 0..9, most significant first) as a number
RECURSIVE DecBig(_)
DecBig(ds) ==
    IF Len(ds) = 0 THEN <<0>>
    ELSE IF Len(ds) = 1 THEN <<ds[1]>>
    ELSE BigAdd(BigMul(DecBig(SubSeq(ds, 1, Len(ds) \div 2)), Pow10Big(Len(ds) - (Len(ds) \div 2))),
                DecBig(SubSeq(ds, (Len(ds) \div 2) + 1, Len(ds))))

\* the decimal digits ds, at most four, as an integer
RECURSIVE SmallDec(_)
SmallDec(ds) ==
    IF Len(ds) = 0 THEN 0 ELSE 10 * SmallDec(SubSeq(ds, 1, Len(ds) - 1)) + ds[Len(ds)]

StripZeros(ds) ==
    IF \A i \in 1..Len(ds) : ds[i] = 0 THEN <<>>
    ELSE SubSeq(ds, Min({i \in 1..Len(ds) : ds[i] # 0}), Len(ds))

Pow2Big(k) == Rep(0, k \div 8) \o <<2 ^ (k % 8)>>

BigBitLen(a) ==
    IF BigLen(a) = 0 THEN 0
    ELSE 8 * (BigLen(a) - 1)
         + (CHOOSE b \in 1..8 : 2 ^ (b - 1) <= a[BigLen(a)] /\ a[BigLen(a)] < 2 ^ b)

\* a div 2^k and a mod 2^k
BigShr(a, k) ==
    [i \in 1..Max({Len(a) - (k \div 8), 1}) |->
        (Limb(a, i + (k \div 8)) \div (2 ^ (k % 8)))
        + (Limb(a, i + (k \div 8) + 1) % (2 ^ (k % 8))) * (2 ^ (8 - (k % 8)))]

BigLow(a, k) ==
    [i \in 1..((k \div 8) + 1) |-> IF i <= (k \div 8) THEN Limb(a, i) ELSE Limb(a, i) % (2 ^ (k % 8))]

BigOdd(a) == Limb(a, 1) % 2 = 1

FracNonZero(F) == \E i \in 1..Len(F) : F[i] # 0

\* q 2^k + rem + 0.F rounds up to (q + 1) 2^k; half is 2^(k-1)
RoundsUp(q, rem, half, F) ==
    \/ BigLt(half, rem)
    \/ BigEq(half, rem) /\ (FracNonZero(F) \/ BigOdd(q))

Shifted(q, up, k) == BigMul(IF up THEN BigAdd(q, <<1>>) ELSE q, Pow2Big(k))

\* N of 54 bits or more: the k = bits - 53 low bits are rounded away
RoundShift(N, F, k) ==
    Shifted(BigShr(N, k), RoundsUp(BigShr(N, k), BigLow(N, k), Pow2Big(k - 1), F), k)

\* N of b < 53 bits: 1 - 0.F <= 2^(b-54), so the nearest double is N + 1 or above
Near(N, F, b) ==
    BigLe(BigMul(BigAdd(DecBig([i \in 1..Len(F) |-> 9 - F[i]]), <<1>>), Pow2Big(54 - b)),
          Pow10Big(Len(F)))

\* N of 53 bits: 0.F against one half
RoundsHalf(N, F) ==
    \/ F[1] > 5
    \/ F[1] = 5 /\ ((\E i \in 2..Len(F) : F[i] # 0) \/ BigOdd(N))

RoundBits(N, F, b) ==
    IF b >= 54 THEN RoundShift(N, F, b - 53)
    ELSE IF ~FracNonZero(F) THEN N
    ELSE IF (b = 53 /\ RoundsHalf(N, F)) \/ (b < 53 /\ Near(N, F, b)) THEN BigAdd(N, <<1>>)
    ELSE N

\* The integer part of the double nearest to N + 0.F, for the integer N and the
\* fraction digits F (round to nearest, ties to even, 53 significant bits)
RoundTrunc(N, F) == RoundBits(N, F, BigBitLen(N))

Double(neg, int, huge) == [neg |-> neg, int |-> int, huge |-> huge]

\* The parts of a text json_parse_number has accepted:
\* -?(0|[1-9][0-9]*)(.[0-9]+)?([eE][+-]?[0-9]+)?
ExpAt(s) ==
    IF \A i \in 1..Len(s) : s[i] \notin {Ch("e"), Ch("E")} THEN Len(s) + 1
    ELSE Min({i \in 1..Len(s) : s[i] \in {Ch("e"), Ch("E")}})

DotAt(s) ==
    IF \A i \in 1..Len(s) : s[i] # Ch(".") THEN ExpAt(s)
    ELSE Min({i \in 1..Len(s) : s[i] = Ch(".")})

FirstDigit(s) == IF s[1] = Ch("-") THEN 2 ELSE 1

IntDigits(s) == [i \in 1..(DotAt(s) - FirstDigit(s)) |-> s[FirstDigit(s) + i - 1] - Ch("0")]

\* none when there is no decimal point (DotAt is ExpAt then)
FracDigits(s) ==
    [i \in 1..(IF DotAt(s) < ExpAt(s) THEN ExpAt(s) - DotAt(s) - 1 ELSE 0) |->
        s[DotAt(s) + i] - Ch("0")]

ExpFirst(s) ==
    IF ExpAt(s) < Len(s) /\ s[ExpAt(s) + 1] \in {Ch("+"), Ch("-")} THEN ExpAt(s) + 2
    ELSE ExpAt(s) + 1

\* none when there is no exponent (ExpFirst is beyond the text then)
ExpDigits(s) ==
    StripZeros([i \in 1..(IF ExpFirst(s) <= Len(s) THEN Len(s) - ExpFirst(s) + 1 ELSE 0) |->
                   s[ExpFirst(s) + i - 1] - Ch("0")])

\* an exponent of five digits or more is beyond every double
ExpMagnitude(ed) == IF Len(ed) > 4 THEN 99999 ELSE SmallDec(ed)

Exponent(s) ==
    IF ExpAt(s) < Len(s) /\ s[ExpAt(s) + 1] = Ch("-") THEN 0 - ExpMagnitude(ExpDigits(s))
    ELSE ExpMagnitude(ExpDigits(s))

\* n zeros, 21 of them when n is more: an integer of 21 digits is already above 2^64
ZeroPad(n) == Rep(0, IF n > 21 THEN 21 ELSE n)

StrtodValue(neg, v) ==
    IF BigLen(v) > 8 THEN Double(neg, U64Zero, TRUE) ELSE Double(neg, U64Trunc(v), FALSE)

\* ID: the digits of the integer part without leading zeros, F: the fraction digits
StrtodParts(neg, ID, F) ==
    IF Len(ID) > 20 THEN Double(neg, U64Zero, TRUE)
    ELSE StrtodValue(neg, RoundTrunc(DecBig(ID), F))

\* D: all digits of the mantissa, pp: the number of them before the decimal point
\* once the exponent is applied
StrtodDigits(neg, D, pp) ==
    IF (\A i \in 1..Len(D) : D[i] = 0) \/ pp < 0 THEN Double(neg, U64Zero, FALSE)
    ELSE StrtodParts(neg,
                     IF pp >= Len(D) THEN StripZeros(D) \o ZeroPad(pp - Len(D))
                     ELSE StripZeros(SubSeq(D, 1, pp)),
                     IF pp >= Len(D) THEN <<>> ELSE SubSeq(D, pp + 1, Len(D)))

\* strtod(numstr, NULL)
strtod(numstr) ==
    StrtodDigits(numstr[1] = Ch("-"), IntDigits(numstr) \o FracDigits(numstr),
                 (DotAt(numstr) - FirstDigit(numstr)) + Exponent(numstr))

\* The builds whose conversion of an out-of-range double is modelled
CastBuilds == {"x86_64", "aarch64"}

\* (size_t)d.  The conversion is defined when the truncated value is in 0..2^64-1.
\* Otherwise the behaviour is undefined; the outcome is that of the build: x86-64 code
\* (cvttsd2si, with the 2^63 adjustment of an unsigned conversion) wraps a negative value
\* and gives 0 from 2^64 on, AArch64 code (fcvtzu) saturates.
DoubleToSizeT(d, build) ==
    IF ~d.huge /\ (~d.neg \/ d.int = U64Zero) THEN d.int
    ELSE IF build = "x86_64"
    THEN IF d.neg
         THEN (IF ~d.huge /\ U64Le(d.int, U64Top) THEN U64Neg(d.int) ELSE U64Top)
         ELSE U64Zero
    ELSE IF d.neg THEN U64Zero ELSE U64Max

\* the conversion (size_t)d is undefined behaviour
CastUndefined(d) == d.huge \/ (d.neg /\ d.int # U64Zero)

\* json_parse_number, last step first.  start is the offset of the first byte of the
\* number; p is the parser after the part of the number already scanned.
DigitsRun(p) == [p EXCEPT !.pos = RunEnd(p, p.pos, p.end, Digits)]

DigitAt(p) == p.pos < p.end /\ Cur(p) \in Digits

SkipSign(p) == IF p.pos < p.end /\ Cur(p) \in {Ch("+"), Ch("-")} THEN Advance(p, 1) ELSE p

HasExp(p) == p.pos < p.end /\ Cur(p) \in {Ch("e"), Ch("E")}

HasFrac(p) == p.pos < p.end /\ Cur(p) = Ch(".")

\* malloc of numstr, strtod, free(numstr), json_alloc_value
NumberEnd(p, start) ==
    IF AllocFails(p) THEN Fail(Alloc(p), "Memory allocation failed")
    ELSE Allocated(json_alloc_value(FreeBlock(Alloc(p)),
                                    [type |-> "number",
                                     number |-> strtod(SubSeq(p.data, start + 1, p.pos))]))

NumberExp(p, start) ==
    IF HasExp(p) /\ ~DigitAt(SkipSign(Advance(p, 1)))
    THEN Fail(SkipSign(Advance(p, 1)), "Invalid number exponent")
    ELSE NumberEnd(IF HasExp(p) THEN DigitsRun(SkipSign(Advance(p, 1))) ELSE p, start)

NumberFrac(p, start) ==
    IF HasFrac(p) /\ ~DigitAt(Advance(p, 1)) THEN Fail(Advance(p, 1), "Invalid number")
    ELSE NumberExp(IF HasFrac(p) THEN DigitsRun(Advance(p, 1)) ELSE p, start)

NumberInt(p, start) ==
    IF p.pos >= p.end THEN Fail(p, "Unexpected end of number")
    ELSE IF Cur(p) \notin Digits THEN Fail(p, "Invalid number")
    ELSE NumberFrac(IF Cur(p) = Ch("0") THEN Advance(p, 1) ELSE DigitsRun(p), start)

json_parse_number(p) == NumberInt(IF Cur(p) = Ch("-") THEN Advance(p, 1) ELSE p, p.pos)

(***************************************************************************)
(* Arrays, objects and values.  An array value holds its items and its     *)
(* capacity, an object value its (key, value) pairs and its capacity.      *)
(***************************************************************************)
\* the capacity after "capacity == 0 ? 8 : capacity * 2"
NewCap(capacity) == IF capacity = 0 THEN 8 ELSE capacity * 2

RECURSIVE json_parse_value(_)
RECURSIVE ArrayLoop(_, _)
RECURSIVE ObjectLoop(_, _)

\* json_parse_array, last step first: after the item, p at ',' or ']'
ArrayNext(v, p) ==
    IF p.pos >= p.end THEN Fail(json_free_value(p, v), "Unexpected end of array")
    ELSE IF Cur(p) = Ch("]") THEN Ret(v, Advance(p, 1))
    ELSE IF Cur(p) # Ch(",") THEN Fail(json_free_value(p, v), "Expected ',' or ']' in array")
    ELSE ArrayLoop(json_skip_whitespace(Advance(p, 1)), v)

\* the item r is stored, after a realloc when the array is full
ArrayItem(v, r) ==
    IF IsNull(r.v) THEN Ret(NullPtr, json_free_value(r.p, v))
    ELSE IF Len(v.items) >= v.capacity /\ AllocFails(r.p)
    THEN Fail(json_free_value(json_free_value(Realloc(r.p, v.capacity > 0), r.v), v),
              "Memory allocation failed")
    ELSE ArrayNext([v EXCEPT !.items = Append(@, r.v),
                             !.capacity = IF Len(v.items) >= v.capacity THEN NewCap(@) ELSE @],
                   json_skip_whitespace(IF Len(v.items) >= v.capacity
                                        THEN Realloc(r.p, v.capacity > 0) ELSE r.p))

\* the for (;;) loop of json_parse_array, from the parse of the next item on
ArrayLoop(p, v) == ArrayItem(v, json_parse_value(p))

ArrayFirst(v, p) ==
    IF p.pos < p.end /\ Cur(p) = Ch("]") THEN Ret(v, Advance(p, 1)) ELSE ArrayLoop(p, v)

ArrayOpen(a) ==
    IF IsNull(a.v) THEN Fail(a.p, "Memory allocation failed")
    ELSE ArrayFirst(a.v, json_skip_whitespace(a.p))

json_parse_array(p) ==
    IF Cur(p) # Ch("[") THEN Fail(p, "Expected '[' at position %zu")
    ELSE ArrayOpen(json_alloc_value(Advance(p, 1), [type |-> "array", items |-> <<>>, capacity |-> 0]))

\* json_parse_object, last step first: after the pair, p at ',' or '}'
ObjectNext(v, p) ==
    IF p.pos >= p.end THEN Fail(json_free_value(p, v), "Unexpected end of object")
    ELSE IF Cur(p) = Ch("}") THEN Ret(v, Advance(p, 1))
    ELSE IF Cur(p) # Ch(",") THEN Fail(json_free_value(p, v), "Expected ',' or '}' in object")
    ELSE ObjectLoop(json_skip_whitespace(Advance(p, 1)), v)

\* an object reader without the duplicate check
NoDuplicateCheck(v, key) == FALSE

\* the duplicate check: strcmp of the new key against every key stored so far
DuplicateKey(v, key) == \E i \in 1..Len(v.pairs) : StrEq(v.pairs[i].key, key)

\* the pair is stored, after a realloc of pairs when the object is full
\* (a return of NULL frees the key, the value and the object)
ObjectPair(v, key, r) ==
    IF IsNull(r.v) THEN Ret(NullPtr, json_free_value(FreeBlock(r.p), v))
    ELSE IF DuplicateKey(v, key)
    THEN Fail(json_free_value(json_free_value(FreeBlock(r.p), r.v), v), "Duplicate key in object")
    ELSE IF Len(v.pairs) >= v.capacity /\ AllocFails(r.p)
    THEN Fail(json_free_value(json_free_value(FreeBlock(Realloc(r.p, v.capacity > 0)), r.v), v),
              "Memory allocation failed")
    ELSE ObjectNext([v EXCEPT !.pairs = Append(@, [key |-> key, value |-> r.v]),
                              !.capacity = IF Len(v.pairs) >= v.capacity THEN NewCap(@) ELSE @],
                    json_skip_whitespace(IF Len(v.pairs) >= v.capacity
                                         THEN Realloc(r.p, v.capacity > 0) ELSE r.p))

ObjectColon(v, key, p) ==
    IF p.pos >= p.end \/ Cur(p) # Ch(":")
    THEN Fail(json_free_value(FreeBlock(p), v), "Expected ':' after key")
    ELSE ObjectPair(v, key, json_parse_value(Advance(p, 1)))

\* k: the return of json_parse_string; the key is taken out of key_val, which is freed
ObjectKey(v, k) ==
    IF IsNull(k.v) THEN Ret(NullPtr, json_free_value(k.p, v))
    ELSE ObjectColon(v, k.v.string, json_skip_whitespace(FreeBlock(k.p)))

\* the for (;;) loop of json_parse_object, from the check of the next key on
ObjectLoop(p, v) ==
    IF p.pos >= p.end \/ Cur(p) # Ch("\"")
    THEN Fail(json_free_value(p, v), "Expected string key in object")
    ELSE ObjectKey(v, json_parse_string(p))

ObjectFirst(v, p) ==
    IF p.pos < p.end /\ Cur(p) = Ch("}") THEN Ret(v, Advance(p, 1)) ELSE ObjectLoop(p, v)

ObjectOpen(a) ==
    IF IsNull(a.v) THEN Fail(a.p, "Memory allocation failed")
    ELSE ObjectFirst(a.v, json_skip_whitespace(a.p))

json_parse_object(p) ==
    IF Cur(p) # Ch("{") THEN Fail(p, "Expected '{' at position %zu")
    ELSE ObjectOpen(json_alloc_value(Advance(p, 1), [type |-> "object", pairs |-> <<>>, capacity |-> 0]))

\* json_parse_value after json_skip_whitespace
ValueAt(p) ==
    IF p.pos >= p.end THEN Fail(p, "Unexpected end of input")
    ELSE IF Cur(p) = Ch("n") /\ json_match(p, Bytes("null"))
    THEN json_alloc_value(Advance(p, 4), [type |-> "null"])
    ELSE IF Cur(p) = Ch("t") /\ json_match(p, Bytes("true"))
    THEN json_alloc_value(Advance(p, 4), [type |-> "bool", boolean |-> TRUE])
    ELSE IF Cur(p) = Ch("f") /\ json_match(p, Bytes("false"))
    THEN json_alloc_value(Advance(p, 5), [type |-> "bool", boolean |-> FALSE])
    ELSE IF Cur(p) = Ch("\"") THEN json_parse_string(p)
    ELSE IF Cur(p) = Ch("[") THEN json_parse_array(p)
    ELSE IF Cur(p) = Ch("{") THEN json_parse_object(p)
    ELSE IF Cur(p) = Ch("-") \/ Cur(p) \in Digits THEN json_parse_number(p)
    ELSE Fail(p, "Invalid JSON value")

json_parse_value(p) == ValueAt(json_skip_whitespace(p))

\* json_object_get(obj, key): the value of the first pair with that key, or NULL
json_object_get(obj, key) ==
    IF obj.type # "object" \/ \A i \in 1..Len(obj.pairs) : ~StrEq(obj.pairs[i].key, key)
    THEN NullPtr
    ELSE obj.pairs[Min({i \in 1..Len(obj.pairs) : StrEq(obj.pairs[i].key, key)})].value

(***************************************************************************)
(* csafetensors.h: limits and dtypes.                                      *)
(***************************************************************************)
CSAFETENSORS_MAX_DIM == 8

CSAFETENSORS_MAX_STRING_LEN == 4096

CSAFETENSORS_MAX_JSON_SIZE == U64(100 * 1024 * 1024)

\* the dtype strings of parse_dtype_string, in the order it tries them, with their dtype
DtypeStrings ==
    << <<"BOOL", "BOOL">>, <<"U8", "UINT8">>, <<"I8", "INT8">>, <<"U16", "UINT16">>,
       <<"I16", "INT16">>, <<"U32", "UINT32">>, <<"I32", "INT32">>, <<"U64", "UINT64">>,
       <<"I64", "INT64">>, <<"F16", "FLOAT16">>, <<"BF16", "BFLOAT16">>,
       <<"F32", "FLOAT32">>, <<"F64", "FLOAT64">> >>

\* parse_dtype_string(s, &dtype): the dtype, or "none" when it returns false
parse_dtype_string(s) ==
    IF \A i \in 1..Len(DtypeStrings) : ~StrEq(s, Bytes(DtypeStrings[i][1])) THEN "none"
    ELSE DtypeStrings[Min({i \in 1..Len(DtypeStrings) : StrEq(s, Bytes(DtypeStrings[i][1]))})][2]

csafetensors_dtype_size(dtype) ==
    CASE dtype \in {"BOOL", "UINT8", "INT8"} -> 1
      [] dtype \in {"UINT16", "INT16", "FLOAT16", "BFLOAT16"} -> 2
      [] dtype \in {"UINT32", "INT32", "FLOAT32"} -> 4
      [] dtype \in {"UINT64", "INT64", "FLOAT64"} -> 8
      [] OTHER -> 0

\* csafetensors_dtype_name(dtype): the string written for the dtype, "???" for any other value
csafetensors_dtype_name(dtype) ==
    IF \A i \in 1..Len(DtypeStrings) : DtypeStrings[i][2] # dtype THEN "???"
    ELSE DtypeStrings[Min({i \in 1..Len(DtypeStrings) : DtypeStrings[i][2] = dtype})][1]

(***************************************************************************)
(* The header validator.  A csafetensors_tensor_t is a record; shape is    *)
(* the fixed array of CSAFETENSORS_MAX_DIM words.  Messages are kept as    *)
(* their format strings.                                                   *)
(***************************************************************************)
KeyDtype == Bytes("dtype")

KeyShape == Bytes("shape")

KeyDataOffsets == Bytes("data_offsets")

KeyMetadata == Bytes("__metadata__")

\* memset(tensor, 0, sizeof(*tensor)); dtype 0 is CSAFETENSORS_DTYPE_BOOL
ZeroTensor ==
    [name |-> <<>>, dtype |-> "BOOL", shape |-> [i \in 1..CSAFETENSORS_MAX_DIM |-> U64Zero],
     n_dims |-> 0, data_offset_begin |-> U64Zero, data_offset_end |-> U64Zero]

\* The tensor being filled by parse_tensor and what the call has done so far.
\* oob: a store to tensor->shape[i] with i >= CSAFETENSORS_MAX_DIM was made;
\* ub: a conversion (size_t)number was undefined.
Filling(tensor, oob, ub) == [tensor |-> tensor, oob |-> oob, ub |-> ub]

\* the return of parse_tensor: [ok, tensor, err, oob, ub]
TensorOut(ok, w, err) ==
    [ok |-> ok, tensor |-> w.tensor, err |-> err, oob |-> w.oob, ub |-> w.ub]

\* The number of iterations of the shape loop of parse_tensor that store a dimension:
\* all n_dims of them, or those before the first item that is not a number
ShapeStores(items, n_dims) ==
    IF \A i \in 1..n_dims : items[i].type = "number" THEN n_dims
    ELSE Min({i \in 1..n_dims : items[i].type # "number"}) - 1

\* a shape loop that never sets is_empty
NeverEmpty(items, stores, build) == FALSE

\* is_empty after the shape loop has stored the first stores dimensions
IsEmptyShape(items, stores, build) ==
    \E i \in 1..stores : DoubleToSizeT(items[i].number, build) = U64Zero

\* a validator without the limit on the number of dimensions
NoDimLimit(n_dims) == FALSE

\* tensor->n_dims > CSAFETENSORS_MAX_DIM
TooManyDims(n_dims) == n_dims > CSAFETENSORS_MAX_DIM

\* the shape loop: tensor->shape[i] = (size_t)dim->data.number for the first stores items
ShapeLoop(w, items, stores, build) ==
    Filling([w.tensor EXCEPT !.n_dims = Len(items),
                             !.shape = [i \in 1..CSAFETENSORS_MAX_DIM |->
                                           IF i <= stores THEN DoubleToSizeT(items[i].number, build)
                                           ELSE U64Zero]],
            stores > CSAFETENSORS_MAX_DIM,
            \E i \in 1..stores : CastUndefined(items[i].number))

\* parse_tensor, last step first: after the shape loop
TensorOffsets(w, bad_dim, is_empty, offsets_val, build) ==
    IF bad_dim THEN TensorOut(FALSE, w, "Invalid shape dimension in tensor '%s'")
    ELSE IF is_empty
    THEN IF ~IsNull(offsets_val)
         THEN TensorOut(FALSE, w, "Empty tensor '%s' should not have data_offsets")
         ELSE TensorOut(TRUE, w, "")
    ELSE IF IsNull(offsets_val) \/ offsets_val.type # "array" \/ Len(offsets_val.items) # 2
    THEN TensorOut(FALSE, w, "Tensor '%s' missing valid 'data_offsets' array")
    ELSE IF offsets_val.items[1].type # "number" \/ offsets_val.items[2].type # "number"
    THEN TensorOut(FALSE, w, "Invalid data_offsets in tensor '%s'")
    ELSE TensorOut(TRUE,
                   [w EXCEPT !.tensor.data_offset_begin = DoubleToSizeT(offsets_val.items[1].number, build),
                             !.tensor.data_offset_end = DoubleToSizeT(offsets_val.items[2].number, build),
                             !.ub = @ \/ CastUndefined(offsets_val.items[1].number)
                                      \/ CastUndefined(offsets_val.items[2].number)],
                   "")

TensorShape(w, obj, shape_val, build) ==
    IF IsNull(shape_val) \/ shape_val.type # "array"
    THEN TensorOut(FALSE, w, "Tensor '%s' missing 'shape' array")
    ELSE IF TooManyDims(Len(shape_val.items))
    THEN TensorOut(FALSE, [w EXCEPT !.tensor.n_dims = Len(shape_val.items)],
                   "Tensor '%s' has too many dimensions (%zu)")
    ELSE TensorOffsets(ShapeLoop(w, shape_val.items, ShapeStores(shape_val.items, Len(shape_val.items)), build),
                       ShapeStores(shape_val.items, Len(shape_val.items)) < Len(shape_val.items),
                       IsEmptyShape(shape_val.items, ShapeStores(shape_val.items, Len(shape_val.items)), build),
                       json_object_get(obj, KeyDataOffsets), build)

TensorDtypeSet(w, obj, dtype, build) ==
    IF dtype = "none" THEN TensorOut(FALSE, w, "Unknown dtype '%s' in tensor '%s'")
    ELSE TensorShape([w EXCEPT !.tensor.dtype = dtype], obj, json_object_get(obj, KeyShape), build)

TensorDtype(w, obj, dtype_val, build) ==
    IF IsNull(dtype_val) \/ dtype_val.type # "string"
    THEN TensorOut(FALSE, w, "Tensor '%s' missing 'dtype' string")
    ELSE TensorDtypeSet(w, obj, parse_dtype_string(dtype_val.string), build)

\* parse_tensor(name, obj, tensor, err, err_size); tensor comes from calloc
parse_tensor(name, obj, build) ==
    IF IsNull(obj) \/ obj.type # "object"
    THEN TensorOut(FALSE, Filling(ZeroTensor, FALSE, FALSE), "Tensor '%s' is not a JSON object")
    ELSE TensorDtype(Filling([ZeroTensor EXCEPT !.name = StrNCpy(name, CSAFETENSORS_MAX_STRING_LEN - 1)],
                             FALSE, FALSE),
                     obj, json_object_get(obj, KeyDtype), build)

(***************************************************************************)
(* A csafetensors_t is the record st.  tensors and metadata are the heap   *)
(* arrays (<<>> is NULL: calloc is only called for a positive count);      *)
(* storage is the heap copy of the payload; mmap_addr and databuffer_addr  *)
(* point into the caller's buffer (off is the offset from its first byte). *)
(***************************************************************************)
NullBuf == [null |-> TRUE, off |-> 0]

BufPtr(off) == [null |-> FALSE, off |-> off]

NullStorage == [null |-> TRUE, bytes |-> <<>>]

ZeroMetadata == [key |-> <<>>, value |-> <<>>]

\* csafetensors_init(st): memset(st, 0, sizeof(*st))
csafetensors_init ==
    [tensors |-> <<>>, n_tensors |-> 0, metadata |-> <<>>, n_metadata |-> 0,
     header_size |-> 0, storage |-> NullStorage, storage_size |-> 0,
     mmaped |-> FALSE, mmap_addr |-> NullBuf, mmap_size |-> 0,
     databuffer_addr |-> NullBuf, databuffer_size |-> 0,
     _internal_file |-> FALSE, _internal_mmap |-> FALSE, error_msg |-> ""]

\* the outcome of a call: the return value, the structure, and what the call did
\* (allocs: calls of malloc/calloc/realloc made; reader: the JSON reader was entered;
\* oob: a store past tensor->shape[CSAFETENSORS_MAX_DIM - 1]; ub: an undefined conversion)
\* and the resources the call acquired and has not released when it returns: heap blocks,
\* FILE handles and mappings; events: its successful calls of fopen and mmap and its calls
\* of munmap and fclose, in their order
Outcome(ret, st, allocs, reader, oob, ub) ==
    [ret |-> ret, st |-> st, allocs |-> allocs, reader |-> reader, oob |-> oob, ub |-> ub,
     heap |-> 0, files |-> 0, maps |-> 0, events |-> <<>>]

\* the outcome o of a call that made the calls of events
Calls(o, events) == [o EXCEPT !.events = events]

\* the outcome o of a call that leaves n more heap blocks allocated
Holding(o, n) == [o EXCEPT !.heap = @ + n]

\* memcpy(&header_size, data, sizeof(uint64_t)) on a little-endian machine
HeaderSizeOf(data) == [i \in 1..8 |-> data[i]]

\* header_size < 1: the lower limit of the prefix off by one
HeaderTooSmallByOne(header_size) == U64Lt(header_size, U64(1))

\* header_size < 2
HeaderTooSmall(header_size) == U64Lt(header_size, U64(2))

HeaderOverLimit(header_size) == U64Lt(CSAFETENSORS_MAX_JSON_SIZE, header_size)

\* 8 + header_size > size, in 64-bit unsigned arithmetic
HeaderOverData(header_size, size) == U64Lt(U64(size), U64Add(U64(8), header_size))

IsMetadataKey(e) == StrEq(e.key, KeyMetadata)

\* the pairs of the root object that the loops take for tensors
TensorPairs(root) == SelectSeq(root.pairs, LAMBDA e : ~IsMetadataKey(e))

\* the pairs of the "__metadata__" object; none when the key is absent or its value is
\* not an object
MetadataObjects(root) ==
    SelectSeq(root.pairs, LAMBDA e : IsMetadataKey(e) /\ e.value.type = "object")

MetadataPairs(objs) == IF Len(objs) = 0 THEN <<>> ELSE objs[Len(objs)].value.pairs

\* the metadata pairs the second loop copies: those whose value is a string
MetadataStrings(meta) == SelectSeq(meta, LAMBDA e : e.value.type = "string")

MetadataEntry(e) ==
    [key |-> StrNCpy(e.key, CSAFETENSORS_MAX_STRING_LEN - 1),
     value |-> StrNCpy(e.value.string, CSAFETENSORS_MAX_STRING_LEN - 1)]

\* st->metadata: calloc(count) filled with the copied pairs
MetadataArray(strs, count) ==
    [j \in 1..count |-> IF j <= Len(strs) THEN MetadataEntry(strs[j]) ELSE ZeroMetadata]

\* parse_tensor on every tensor pair, and the first pair on which it fails (0: none)
TensorResults(tpairs, build) ==
    [k \in 1..Len(tpairs) |-> parse_tensor(tpairs[k].key, tpairs[k].value, build)]

FirstFailure(res) ==
    IF \A k \in 1..Len(res) : res[k].ok THEN 0 ELSE Min({k \in 1..Len(res) : ~res[k].ok})

\* calloc is called for a positive count only
Callocs(n) == IF n > 0 THEN 1 ELSE 0

\* a second loop that returns at the first tensor that fails without freeing the arrays
FillWithoutRelease(st, res, bad, meta, allocs) ==
    Holding(Outcome(bad = 0,
                    [st EXCEPT !.tensors = [k \in 1..Len(res) |-> res[k].tensor],
                               !.n_tensors = IF bad = 0 THEN Len(res) ELSE bad - 1,
                               !.metadata = MetadataArray(MetadataStrings(meta), Len(meta)),
                               !.n_metadata = Len(MetadataStrings(meta)),
                               !.error_msg = IF bad = 0 THEN @ ELSE res[bad].err],
                    allocs, TRUE, FALSE, FALSE),
            Callocs(Len(res)) + Callocs(Len(meta)))

\* parse_safetensors_header, last step first: the second loop, which stops at the first
\* tensor that fails (and then frees both arrays)
HeaderFill(st, res, bad, meta, allocs) ==
    IF bad # 0
    THEN Outcome(FALSE, [st EXCEPT !.error_msg = res[bad].err], allocs, TRUE,
                 \E k \in 1..bad : res[k].oob, \E k \in 1..bad : res[k].ub)
    ELSE Holding(Outcome(TRUE,
                         [st EXCEPT !.tensors = [k \in 1..Len(res) |-> res[k].tensor],
                                    !.n_tensors = Len(res),
                                    !.metadata = MetadataArray(MetadataStrings(meta), Len(meta)),
                                    !.n_metadata = Len(MetadataStrings(meta))],
                         allocs, TRUE,
                         \E k \in 1..Len(res) : res[k].oob, \E k \in 1..Len(res) : res[k].ub),
                 Callocs(Len(res)) + Callocs(Len(meta)))

\* the two calloc calls; allocs is the count of calls the reader made
HeaderArrays(st, tpairs, meta, allocs, fail, build) ==
    IF Len(tpairs) > 0 /\ fail = allocs + 1
    THEN Outcome(FALSE, [st EXCEPT !.error_msg = "Memory allocation failed"], allocs + 1,
                 TRUE, FALSE, FALSE)
    ELSE IF Len(meta) > 0 /\ fail = allocs + Callocs(Len(tpairs)) + 1
    THEN Outcome(FALSE, [st EXCEPT !.error_msg = "Memory allocation failed"],
                 allocs + Callocs(Len(tpairs)) + 1, TRUE, FALSE, FALSE)
    ELSE HeaderFill(st, TensorResults(tpairs, build), FirstFailure(TensorResults(tpairs, build)),
                    meta, allocs + Callocs(Len(tpairs)) + Callocs(Len(meta)))

\* the counting loop over the root object, p the parser after json_parse_value
HeaderPasses(root, p, st, fail, build) ==
    HeaderArrays(st, TensorPairs(root), MetadataPairs(MetadataObjects(root)), p.allocs, fail, build)

\* r: the return of json_parse_value.  Every return after it calls json_free_value(root);
\* what the reader allocated and did not free stays allocated
HeaderRoot(st, r, fail, build) ==
    IF IsNull(r.v)
    THEN Holding(Outcome(FALSE, [st EXCEPT !.error_msg = "JSON parse error: " \o r.p.error],
                         r.p.allocs, TRUE, FALSE, FALSE),
                 r.p.live)
    ELSE IF r.v.type # "object"
    THEN Holding(Outcome(FALSE, [st EXCEPT !.error_msg = "Root JSON must be an object"],
                         r.p.allocs, TRUE, FALSE, FALSE),
                 json_free_value(r.p, r.v).live)
    ELSE Holding(HeaderPasses(r.v, r.p, st, fail, build), json_free_value(r.p, r.v).live)

\* the parser over the header_size bytes that follow the prefix
HeaderParser(data, header_size, fail) ==
    [data |-> data, input |-> 8, pos |-> 8, end |-> 8 + header_size, error |-> "",
     allocs |-> 0, fail |-> fail, live |-> 0, lost |-> 0]

HeaderJson(data, st, header_size, fail, build) ==
    HeaderRoot([st EXCEPT !.header_size = header_size],
               json_parse_value(HeaderParser(data, header_size, fail)), fail, build)

\* return false before the reader is entered
HeaderEarly(st, msg) == Outcome(FALSE, [st EXCEPT !.error_msg = msg], 0, FALSE, FALSE, FALSE)

HeaderPrefix(data, size, st, header_size, fail, build) ==
    IF HeaderTooSmall(header_size) THEN HeaderEarly(st, "Header size too small")
    ELSE IF HeaderOverLimit(header_size) THEN HeaderEarly(st, "Header size exceeds limit")
    ELSE IF HeaderOverData(header_size, size) THEN HeaderEarly(st, "Header size exceeds data size")
    ELSE HeaderJson(data, st, ToNat(header_size), fail, build)

\* parse_safetensors_header(data, size, st): ret is its bool.  fail is the number of the
\* call of malloc/calloc/realloc that returns NULL (0: none does)
parse_safetensors_header(data, size, st, fail, build) ==
    IF size < 16 THEN HeaderEarly(st, "Data too short (< 16 bytes)")
    ELSE HeaderPrefix(data, size, st, HeaderSizeOf(data), fail, build)

(***************************************************************************)
(* Public API.                                                             *)
(***************************************************************************)
\* a csafetensors_free that leaves the pointers in the structure
FreeWithoutClear(st) == st

\* csafetensors_free(st): everything released, then memset(st, 0, sizeof(*st))
csafetensors_free(st) == csafetensors_init

\* 1 for a pointer that is not NULL
Count(nonnull) == IF nonnull THEN 1 ELSE 0

\* a csafetensors_free that closes the file before it removes the mapping
CloseFirst(st) ==
    (IF st._internal_file THEN <<"fclose">> ELSE <<>>)
        \o (IF st._internal_mmap THEN <<"munmap">> ELSE <<>>)

\* the calls of munmap and fclose that csafetensors_free(st) makes, in their order
ReleaseCalls(st) ==
    (IF st._internal_mmap THEN <<"munmap">> ELSE <<>>)
        \o (IF st._internal_file THEN <<"fclose">> ELSE <<>>)

\* What csafetensors_free(st) releases: free() of tensors, metadata, storage and of the
\* two handle blocks, munmap of m->addr, fclose of f->fp
Released(st) ==
    [heap |-> Count(st.tensors # <<>>) + Count(st.metadata # <<>>) + Count(~st.storage.null)
                + Count(st._internal_mmap) + Count(st._internal_file),
     files |-> Count(st._internal_file),
     maps |-> Count(st._internal_mmap)]

\* st->storage = malloc(data_size) and the copy of the payload, h the outcome of
\* parse_safetensors_header
LoadStorage(h, data, size, data_offset, fail) ==
    IF fail = h.allocs + 1 /\ size - data_offset > 0
    THEN Holding(Outcome("CSAFETENSORS_ERROR_MEMORY_ALLOCATION",
                         [csafetensors_free(h.st) EXCEPT !.error_msg = "Memory allocation failed"],
                         h.allocs + 1, h.reader, h.oob, h.ub),
                 h.heap - Released(h.st).heap)
    ELSE Holding(Outcome("CSAFETENSORS_SUCCESS",
                         [h.st EXCEPT !.storage = IF fail = h.allocs + 1 THEN NullStorage
                                                  ELSE [null |-> FALSE,
                                                        bytes |-> SubSeq(data, data_offset + 1, size)],
                                      !.storage_size = size - data_offset,
                                      !.mmaped = FALSE],
                         h.allocs + 1, h.reader, h.oob, h.ub),
                 h.heap + Count(fail # h.allocs + 1))

\* a loader that reports a rejected header as CSAFETENSORS_ERROR_INVALID_HEADER
RejectedAsInvalidHeader(h, data, size, fail) ==
    IF ~h.ret THEN [h EXCEPT !.ret = "CSAFETENSORS_ERROR_INVALID_HEADER"]
    ELSE LoadStorage(h, data, size, 8 + h.st.header_size, fail)

\* after parse_safetensors_header in csafetensors_load_from_memory
LoadParsed(h, data, size, fail) ==
    IF ~h.ret THEN [h EXCEPT !.ret = "CSAFETENSORS_ERROR_JSON_PARSE"]
    ELSE LoadStorage(h, data, size, 8 + h.st.header_size, fail)

\* csafetensors_load_from_memory(data, size, st)
csafetensors_load_from_memory(data, size, st, fail, build) ==
    IF size < 16 THEN Outcome("CSAFETENSORS_ERROR_INVALID_ARGUMENT", st, 0, FALSE, FALSE, FALSE)
    ELSE LoadParsed(parse_safetensors_header(data, size, csafetensors_init, fail, build),
                    data, size, fail)

\* a map mode whose view starts at the header instead of the payload
ViewFromHeader(h, size) ==
    IF ~h.ret THEN [h EXCEPT !.ret = "CSAFETENSORS_ERROR_JSON_PARSE"]
    ELSE [h EXCEPT !.ret = "CSAFETENSORS_SUCCESS",
                   !.st = [h.st EXCEPT !.mmaped = TRUE,
                                       !.mmap_addr = BufPtr(0),
                                       !.mmap_size = size,
                                       !.databuffer_addr = BufPtr(8),
                                       !.databuffer_size = size - 8]]

\* after parse_safetensors_header in csafetensors_mmap_from_memory
MmapParsed(h, size) ==
    IF ~h.ret THEN [h EXCEPT !.ret = "CSAFETENSORS_ERROR_JSON_PARSE"]
    ELSE [h EXCEPT !.ret = "CSAFETENSORS_SUCCESS",
                   !.st = [h.st EXCEPT !.mmaped = TRUE,
                                       !.mmap_addr = BufPtr(0),
                                       !.mmap_size = size,
                                       !.databuffer_addr = BufPtr(8 + h.st.header_size),
                                       !.databuffer_size = size - 8 - h.st.header_size]]

\* csafetensors_mmap_from_memory(data, size, st)
csafetensors_mmap_from_memory(data, size, st, fail, build) ==
    IF size < 16 THEN Outcome("CSAFETENSORS_ERROR_INVALID_ARGUMENT", st, 0, FALSE, FALSE, FALSE)
    ELSE MmapParsed(parse_safetensors_header(data, size, csafetensors_init, fail, build), size)

\* the call of csafetensors_load_from_memory made by csafetensors_load_from_file, whose
\* malloc of the file buffer was call 1; free(data) follows
LoadFileParsed(o) == [o EXCEPT !.allocs = @ + 1]

\* csafetensors_load_from_file(filename, st).  file: the bytes the file holds; event: what
\* the C library does, "fopen" (NULL), "ftell" (negative), "fread" (short) or "ok".  Every
\* return after fopen has called fclose(fp), every return after malloc free(data)
csafetensors_load_from_file(file, st, event, fail, build) ==
    IF event = "fopen"
    THEN Outcome("CSAFETENSORS_ERROR_FILE_NOT_FOUND",
                 [csafetensors_init EXCEPT !.error_msg = "Cannot open file: %s"],
                 0, FALSE, FALSE, FALSE)
    ELSE IF event = "ftell"
    THEN Calls(Outcome("CSAFETENSORS_ERROR_FILE_READ",
                       [csafetensors_init EXCEPT !.error_msg = "Failed to get file size"],
                       0, FALSE, FALSE, FALSE),
               <<"fopen", "fclose">>)
    ELSE IF fail = 1
    THEN Calls(Outcome("CSAFETENSORS_ERROR_MEMORY_ALLOCATION",
                       [csafetensors_init EXCEPT !.error_msg = "Memory allocation failed"],
                       1, FALSE, FALSE, FALSE),
               <<"fopen", "fclose">>)
    ELSE IF event = "fread"
    THEN Calls(Outcome("CSAFETENSORS_ERROR_FILE_READ",
                       [csafetensors_init EXCEPT !.error_msg = "Failed to read file"],
                       1, FALSE, FALSE, FALSE),
               <<"fopen", "fclose">>)
    ELSE Calls(LoadFileParsed(csafetensors_load_from_memory(file, Len(file), csafetensors_init,
                                                            IF fail = 0 THEN 0 ELSE fail - 1,
                                                            build)),
               <<"fopen", "fclose">>)

\* munmap(addr, file_size); fclose(fp) on the failure paths of csafetensors_mmap_from_file
UnmapAndClose == <<"munmap", "fclose">>

\* the handles are stored in the structure
MmapFileStored(h, size) ==
    [h EXCEPT !.allocs = @ + 2,
              !.heap = @ + 2,
              !.files = 1,
              !.maps = 1,
              !.events = <<"fopen", "mmap">>,
              !.st = [h.st EXCEPT !._internal_file = TRUE,
                                  !._internal_mmap = TRUE,
                                  !.mmap_addr = BufPtr(0),
                                  !.mmap_size = size,
                                  !.databuffer_addr = BufPtr(8 + h.st.header_size),
                                  !.databuffer_size = size - 8 - h.st.header_size]]

\* h: the outcome of csafetensors_mmap_from_memory on the mapping.  Not SUCCESS: munmap,
\* fclose, return err.  Else malloc of f and of m; when one is NULL: free(f), free(m),
\* munmap, fclose, csafetensors_free(st)
MmapFileHandles(h, size, fail) ==
    IF h.ret # "CSAFETENSORS_SUCCESS" THEN Calls(h, <<"fopen", "mmap">> \o UnmapAndClose)
    ELSE IF fail = h.allocs + 1 \/ fail = h.allocs + 2
    THEN Calls(Holding(Outcome("CSAFETENSORS_ERROR_MEMORY_ALLOCATION",
                               [csafetensors_free(h.st) EXCEPT
                                    !.error_msg = "Memory allocation failed"],
                               h.allocs + 2, h.reader, h.oob, h.ub),
                       h.heap - Released(h.st).heap),
               <<"fopen", "mmap">> \o UnmapAndClose \o ReleaseCalls(h.st))
    ELSE MmapFileStored(h, size)

\* csafetensors_mmap_from_file(filename, st), POSIX branch.  event: "fopen" (NULL), "ftell"
\* (negative), "mmap" (MAP_FAILED) or "ok"; mmap of length 0 fails
csafetensors_mmap_from_file(file, st, event, fail, build) ==
    IF event = "fopen"
    THEN Outcome("CSAFETENSORS_ERROR_FILE_NOT_FOUND",
                 [csafetensors_init EXCEPT !.error_msg = "Cannot open file: %s"],
                 0, FALSE, FALSE, FALSE)
    ELSE IF event = "ftell"
    THEN Calls(Outcome("CSAFETENSORS_ERROR_FILE_READ",
                       [csafetensors_init EXCEPT !.error_msg = "Failed to get file size"],
                       0, FALSE, FALSE, FALSE),
               <<"fopen", "fclose">>)
    ELSE IF event = "mmap" \/ Len(file) = 0
    THEN Calls(Outcome("CSAFETENSORS_ERROR_MMAP_FAILED",
                       [csafetensors_init EXCEPT !.error_msg = "mmap failed: %s"],
                       0, FALSE, FALSE, FALSE),
               <<"fopen", "fclose">>)
    ELSE MmapFileHandles(csafetensors_mmap_from_memory(file, Len(file), csafetensors_init,
                                                       fail, build),
                         Len(file), fail)

RECURSIVE ShapeProduct(_, _)
\* size *= tensor->shape[i] for the first n dimensions, in size_t arithmetic
ShapeProduct(shape, n) ==
    IF n = 0 THEN U64(1) ELSE U64Mul(ShapeProduct(shape, n - 1), shape[n])

csafetensors_shape_size(tensor) ==
    IF tensor.n_dims = 0 THEN U64(1)
    ELSE IF \E i \in 1..tensor.n_dims : tensor.shape[i] = U64Zero THEN U64Zero
    ELSE ShapeProduct(tensor.shape, tensor.n_dims)

\* csafetensors_dtype_size(t->dtype) * csafetensors_shape_size(t), in size_t arithmetic
TensorSize(t) == U64Mul(U64(csafetensors_dtype_size(t.dtype)), csafetensors_shape_size(t))

\* the checks of one iteration once tensor_size is computed
ValidateSize(t, data_size, tensor_size) ==
    IF tensor_size = U64Zero THEN ""
    ELSE IF U64Lt(U64(data_size), t.data_offset_end) THEN "Tensor '%s': data offset exceeds buffer size"
    ELSE IF tensor_size # U64Sub(t.data_offset_end, t.data_offset_begin)
    THEN "Tensor '%s': size mismatch (expected %zu, got %zu)"
    ELSE ""

\* one iteration of the loop of csafetensors_validate: "" when the tensor passes,
\* else the message written
ValidateTensor(t, data_size) ==
    IF U64Lt(t.data_offset_end, t.data_offset_begin) THEN "Tensor '%s': begin offset > end offset"
    ELSE ValidateSize(t, data_size, TensorSize(t))

\* the messages of the iterations, up to the first that fails
ValidateLoop(st, msgs) ==
    IF \A i \in 1..st.n_tensors : msgs[i] = "" THEN [ok |-> TRUE, st |-> st]
    ELSE [ok |-> FALSE,
          st |-> [st EXCEPT !.error_msg = msgs[Min({i \in 1..st.n_tensors : msgs[i] # ""})]]]

ValidateAll(st, data_size) ==
    ValidateLoop(st, [i \in 1..st.n_tensors |-> ValidateTensor(st.tensors[i], data_size)])

\* csafetensors_validate(st): [ok, st]
csafetensors_validate(st) ==
    ValidateAll(st, IF st.mmaped THEN st.databuffer_size ELSE st.storage_size)

(***************************************************************************)
(* Accessors.  A returned pointer is NULL or points at element at of the   *)
(* array it points into: st->tensors for the descriptors, st->metadata for *)
(* a metadata value, the payload (storage or databuffer_addr) for tensor   *)
(* data.                                                                   *)
(***************************************************************************)
NullPointer == [null |-> TRUE, at |-> 0]

PointerTo(at) == [null |-> FALSE, at |-> at]

\* the indices i < n of the entries whose name (key) compares equal under strcmp
Matches(entries, n, name) == {i \in 0..(n - 1) : StrEq(entries[i + 1], name)}

\* the loop "for i < n: if (strcmp(...) == 0) return &...[i]; return NULL"
FirstMatch(entries, n, name) ==
    IF Matches(entries, n, name) = {} THEN NullPointer
    ELSE PointerTo(Min(Matches(entries, n, name)))

\* csafetensors_get_tensor(st, name)
csafetensors_get_tensor(st, name) ==
    FirstMatch([i \in 1..st.n_tensors |-> st.tensors[i].name], st.n_tensors, name)

\* csafetensors_get_tensor_by_index(st, index)
csafetensors_get_tensor_by_index(st, index) ==
    IF index >= st.n_tensors THEN NullPointer ELSE PointerTo(index)

\* base and max_size of csafetensors_get_tensor_data
PayloadBase(st) == IF st.mmaped THEN ~st.databuffer_addr.null ELSE ~st.storage.null

PayloadSize(st) == IF st.mmaped THEN st.databuffer_size ELSE st.storage_size

\* an accessor that does not compare the offset with the payload length
DataWithoutCheck(st, tensor) ==
    IF ~PayloadBase(st) THEN NullPointer ELSE PointerTo(ToNat(tensor.data_offset_begin))

\* csafetensors_get_tensor_data(st, tensor), tensor the descriptor pointed at
csafetensors_get_tensor_data(st, tensor) ==
    IF ~PayloadBase(st) THEN NullPointer
    ELSE IF U64Lt(U64(PayloadSize(st)), tensor.data_offset_begin) THEN NullPointer
    ELSE PointerTo(ToNat(tensor.data_offset_begin))

\* csafetensors_get_metadata(st, key): a pointer to the value of the first entry with the key
csafetensors_get_metadata(st, key) ==
    FirstMatch([i \in 1..st.n_metadata |-> st.metadata[i].key], st.n_metadata, key)

\* csafetensors_get_error(st)
csafetensors_get_error(st) == st.error_msg

(***************************************************************************)
(* Half-precision conversions.  A uint16_t is a number below 2^16.  A      *)
(* float is kept as the 32 bits that the union of the C code reads: sign   *)
(* is bit 31 and bits the 31 bits below it, the exponent field and the     *)
(* mantissa.                                                               *)
(***************************************************************************)
Float(sign, bits) == [sign |-> sign, bits |-> bits]

ExpField(bits) == bits \div 8388608

MantField(bits) == bits % 8388608

RECURSIVE Pow2(_)
Pow2(k) == IF k = 0 THEN 1 ELSE 2 * Pow2(k - 1)

\* the number of bits of n
RECURSIVE BitWidth(_)
BitWidth(n) == IF n = 0 THEN 0 ELSE 1 + BitWidth(n \div 2)

\* a - b in float arithmetic for two positive normal floats of the same exponent field,
\* a >= b: the difference of the mantissas, which needs no rounding, normalised
FloatMinus(a, b) ==
    IF a = b THEN 0
    ELSE (ExpField(a) - (24 - BitWidth(a - b))) * 8388608
            + ((a - b) * Pow2(24 - BitWidth(a - b)) - 8388608)

\* o.u = (x & 0x7fff) << 13; o.u += (127 - 15) << 23
HalfRebiased(x) == (x % 32768) * 8192 + 112 * 8388608

\* a conversion that leaves out the branch of the denormals
HalfWithoutDenormals(x) ==
    Float(x \div 32768,
          IF (x % 32768) \div 1024 = 31 THEN HalfRebiased(x) + 112 * 8388608 ELSE HalfRebiased(x))

\* csafetensors_f16_to_f32(x)
csafetensors_f16_to_f32(x) ==
    Float(x \div 32768,
          IF (x % 32768) \div 1024 = 31 THEN HalfRebiased(x) + 112 * 8388608
          ELSE IF (x % 32768) \div 1024 = 0
          THEN FloatMinus(HalfRebiased(x) + 8388608, 113 * 8388608)
          ELSE HalfRebiased(x))

\* the branch newexp <= 0 of csafetensors_f32_to_f16, m = mant | 0x800000
HalfSubnormal(sign, newexp, m) ==
    IF 14 - newexp <= 24
    THEN (sign + m \div Pow2(14 - newexp) + ((m \div Pow2(13 - newexp)) % 2)) % 65536
    ELSE sign

\* the last branch: result = sign | newexp << 10 | mant >> 13; if (mant & 0x1000) result++
HalfNormal(sign, newexp, mant) ==
    (sign + newexp * 1024 + mant \div 8192 + ((mant \div 4096) % 2)) % 65536

HalfFinite(sign, newexp, mant) ==
    IF newexp >= 31 THEN sign + 31744
    ELSE IF newexp <= 0 THEN HalfSubnormal(sign, newexp, mant + 8388608)
    ELSE HalfNormal(sign, newexp, mant)

\* csafetensors_f32_to_f16(x)
csafetensors_f32_to_f16(f) ==
    IF ExpField(f.bits) = 0 THEN f.sign * 32768
    ELSE IF ExpField(f.bits) = 255
    THEN f.sign * 32768 + 31744 + (IF MantField(f.bits) # 0 THEN 512 ELSE 0)
    ELSE HalfFinite(f.sign * 32768, ExpField(f.bits) - 127 + 15, MantField(f.bits))

(***************************************************************************)
(* Input buffers.  A buffer is the 8-byte prefix, the header text and the  *)
(* payload, as create_safetensors_data of the unit tests lays them out.    *)
(* The header text is written from a description of the JSON value it      *)
(* holds: t is "number", "literal", "string", "array" or "object" ("text"  *)
(* for a text that is no JSON value), text the token or the characters of  *)
(* the string, keys and items the members.                                 *)
(***************************************************************************)
JValue(t, text, keys, items) == [t |-> t, text |-> text, keys |-> keys, items |-> items]

JNumber(tok) == JValue("number", Bytes(tok), <<>>, <<>>)

JLiteral(tok) == JValue("literal", Bytes(tok), <<>>, <<>>)

JString(s) == JValue("string", Bytes(s), <<>>, <<>>)

JText(s) == JValue("text", Bytes(s), <<>>, <<>>)

JArray(items) == JValue("array", <<>>, <<>>, items)

\* a member that is left out of its object
Absent == JValue("absent", <<>>, <<>>, <<>>)

Present(pairs) == SelectSeq(pairs, LAMBDA e : e[2].t # "absent")

\* the object of the pairs <<key, value>>, keys given as bytes
JObjectB(pairs) ==
    JValue("object", <<>>, [i \in 1..Len(Present(pairs)) |-> Present(pairs)[i][1]],
           [i \in 1..Len(Present(pairs)) |-> Present(pairs)[i][2]])

\* the object of the pairs <<key, value>>, keys given as strings
JObject(pairs) == JObjectB([i \in 1..Len(pairs) |-> <<Bytes(pairs[i][1]), pairs[i][2]>>])

Quote(s) == <<34>> \o s \o <<34>>

RECURSIVE Join(_)
Join(members) ==
    IF Len(members) = 0 THEN <<>>
    ELSE IF Len(members) = 1 THEN members[1]
    ELSE members[1] \o <<44>> \o Join(Tail(members))

\* the JSON text of a description
RECURSIVE Render(_)
Render(j) ==
    IF j.t = "string" THEN Quote(j.text)
    ELSE IF j.t = "array"
    THEN <<91>> \o Join([i \in 1..Len(j.items) |-> Render(j.items[i])]) \o <<93>>
    ELSE IF j.t = "object"
    THEN <<123>> \o Join([i \in 1..Len(j.items) |-> Quote(j.keys[i]) \o <<58>> \o Render(j.items[i])])
         \o <<125>>
    ELSE j.text

Payload(n) == [i \in 1..n |-> i % 256]

\* one input: the header description, the buffer, the allocation that fails, the build
Case(header, buffer, f, b) == [header |-> header, data |-> buffer, fail |-> f, build |-> b]

\* the buffer create_safetensors_data writes for the header text and n bytes of payload
Packed(header, text, n, f, b) == Case(header, U64(Len(text)) \o text \o Payload(n), f, b)

File(header, n, f, b) == Packed(header, Render(header), n, f, b)

\* a shape or data_offsets array of number tokens
Numbers(toks) == JArray([i \in 1..Len(toks) |-> JNumber(toks[i])])

\* a tensor entry
Tensor(dtype, shape, offsets) ==
    JObject(<< <<"dtype", dtype>>, <<"shape", shape>>, <<"data_offsets", offsets>> >>)

\* a header with the single tensor "t"
OneTensor(tensor) == JObject(<< <<"t", tensor>> >>)

\* bounds of the input space
MaxPad == 8

MaxFailAt == 33

SmallPayload == 6

LargePayload == 24

DefaultBuild == "x86_64"

\* size prefixes around every limit of the prefix checks
Prefixes ==
    {U64(k) : k \in 0..(MaxPad + 3)}
        \cup {CSAFETENSORS_MAX_JSON_SIZE, U64Add(CSAFETENSORS_MAX_JSON_SIZE, U64(1)),
              U64Max, U64Neg(U64(8)), U64Neg(U64(7)), U64Top, U64Add(U64Top, U64Top)}

\* buffers of 0, 8 and 10..MaxPad+10 bytes under every prefix
PrefixCases ==
    {Case(JText("{}"), pre \o Bytes("{}") \o Payload(n), 0, DefaultBuild) : pre \in Prefixes, n \in 0..MaxPad}
        \cup {Case(JText(""), <<>>, 0, DefaultBuild), Case(JText(""), U64(2), 0, DefaultBuild)}

\* the first dims - 2 dimensions 1, then 2 and 3
LongShape(dims) == Numbers([i \in 1..dims |-> IF i = dims THEN "3" ELSE IF i = dims - 1 THEN "2" ELSE "1"])

\* shapes whose conversion is defined
Shapes ==
    {Numbers(<<>>), Numbers(<<"6">>), Numbers(<<"2", "3">>), Numbers(<<"0">>),
     Numbers(<<"2", "0", "3">>), Numbers(<<"1.5">>), Numbers(<<"0.5">>), Numbers(<<"6e0">>),
     Numbers(<<"9007199254740992">>), Numbers(<<"9007199254740993">>),
     Numbers(<<"4294967296", "4294967296">>), Numbers(<<"2147483648", "2147483648">>),
     LongShape(CSAFETENSORS_MAX_DIM), LongShape(CSAFETENSORS_MAX_DIM + 1),
     JArray(<<JString("6")>>), JArray(<<JNumber("2"), JLiteral("null"), JNumber("0")>>),
     JNumber("6"), Absent}

\* data_offsets whose conversion is defined
Offsets ==
    {Absent, Numbers(<<"0", "6">>), Numbers(<<"0", "24">>), Numbers(<<"2", "8">>),
     Numbers(<<"6", "0">>), Numbers(<<"0", "4.5">>), Numbers(<<"1.5", "7.5">>),
     Numbers(<<"0", "9007199254740992">>), Numbers(<<"0">>), Numbers(<<"0", "6", "6">>),
     JArray(<<JNumber("0"), JString("6")>>), JLiteral("null"), Numbers(<<"0", "48">>),
     Numbers(<<"0", "5">>), Numbers(<<"0", "1">>), Numbers(<<"0", "4">>)}

\* tensors of one byte per element: every shape, with and without data_offsets
ShapeCases ==
    {File(OneTensor(Tensor(JString("U8"), s, o)), SmallPayload, 0, DefaultBuild) :
        s \in Shapes, o \in {Absent, Numbers(<<"0", "6">>)}}

\* every data_offsets under a shape of six elements, of none and of one
OffsetCases ==
    {File(OneTensor(Tensor(JString("U8"), s, o)), SmallPayload, 0, DefaultBuild) :
        s \in {Numbers(<<"6">>), Numbers(<<"0">>), Numbers(<<>>)}, o \in Offsets}

\* sizes against offsets and payload lengths
SizeCases ==
    {File(OneTensor(Tensor(JString(d), s, o)), n, 0, DefaultBuild) :
        d \in {"U8", "F32"},
        s \in {Numbers(<<>>), Numbers(<<"6">>), Numbers(<<"2", "3">>),
               Numbers(<<"4294967296", "4294967296">>), Numbers(<<"2147483648", "2147483648">>),
               LongShape(CSAFETENSORS_MAX_DIM)},
        o \in {Numbers(<<"0", "6">>), Numbers(<<"0", "24">>), Numbers(<<"2", "8">>),
               Numbers(<<"6", "0">>), Numbers(<<"0", "48">>), Numbers(<<"0", "1">>),
               Numbers(<<"0", "4">>)},
        n \in {0, SmallPayload, LargePayload}}

\* numbers whose conversion to size_t is undefined, under both builds
RangeCases ==
    {File(OneTensor(Tensor(JString("U8"), s, o)), SmallPayload, 0, b) :
        s \in {Numbers(<<"-1">>), Numbers(<<"1e30">>), Numbers(<<"18446744073709551616">>),
               Numbers(<<"6">>)},
        o \in {Absent, Numbers(<<"0", "6">>), Numbers(<<"-1", "5">>), Numbers(<<"0", "1e30">>)},
        b \in CastBuilds}

\* every dtype string, and values of "dtype" that are none
DtypeCases ==
    {File(OneTensor(Tensor(d, Numbers(<<>>), Numbers(<<"0", "8">>))), LargePayload, 0, DefaultBuild) :
        d \in {JString(DtypeStrings[i][1]) : i \in 1..Len(DtypeStrings)}
              \cup {JString("X9"), JString("f32"), JString(""), JNumber("1"), Absent,
                    JString("U8 "), JString(" U8"), JString("F323"), JString("BF1"),
                    JString("BOOLEAN"), JString("F")}}

\* a dtype string that is "U8", a NUL byte and "x", the NUL written as \u0000
NulDtypeCase ==
    Packed(OneTensor(Tensor(JValue("string", Bytes("U8") \o <<0>> \o Bytes("x"), <<>>, <<>>),
                            Numbers(<<>>), Numbers(<<"0", "1">>))),
           Bytes("{\"t\":{\"dtype\":\"U8\\u0000x\",\"shape\":[],\"data_offsets\":[0,1]}}"),
           LargePayload, 0, DefaultBuild)

TA == Tensor(JString("U8"), Numbers(<<"2">>), Numbers(<<"0", "2">>))

TB == Tensor(JString("F32"), Numbers(<<"1">>), Numbers(<<"2", "6">>))

MetaPT == JObject(<< <<"format", JString("pt")>> >>)

\* a key of n bytes that ends with byte c
LongKey(n, c) == Rep(107, n - 1) \o <<c>>

\* root objects: directories, metadata of every type, repeated keys, long keys
Roots ==
    { JObject(<<>>),
      JObject(<< <<"a", TA>>, <<"b", TB>> >>),
      JObject(<< <<"b", TB>>, <<"a", TA>> >>),
      JObject(<< <<"__metadata__", MetaPT>>, <<"a", TA>>, <<"b", TB>> >>),
      JObject(<< <<"a", TA>>,
                 <<"__metadata__", JObject(<< <<"format", JString("pt")>>, <<"model", JString("test")>> >>)>>,
                 <<"b", TB>> >>),
      JObject(<< <<"__metadata__", JObject(<<>>)>>, <<"a", TA>> >>),
      JObject(<< <<"__metadata__", MetaPT>> >>),
      JObject(<< <<"a", TA>>, <<"a", TB>> >>),
      JObject(<< <<"a", JObject(<< <<"dtype", JString("U8")>>, <<"dtype", JString("U8")>>,
                                   <<"shape", Numbers(<<"2">>)>>,
                                   <<"data_offsets", Numbers(<<"0", "2">>)>> >>)>> >>),
      JObject(<< <<"__metadata__", JObject(<< <<"k", JString("v")>>, <<"k", JString("w")>> >>)>>,
                 <<"a", TA>> >>),
      JObject(<< <<"__metadata__", MetaPT>>, <<"a", TA>>, <<"__metadata__", MetaPT>> >>),
      JObject(<< <<"__metadata__",
                   JObject(<< <<"k", JObject(<< <<"n", JString("1")>>, <<"n", JString("2")>> >>)>> >>)>>,
                 <<"a", TA>> >>),
      JObject(<< <<"a", Tensor(JString("U8"),
                               JArray(<<JNumber("2"),
                                        JObject(<< <<"x", JNumber("1")>>, <<"x", JNumber("2")>> >>)>>),
                               Numbers(<<"0", "2">>))>> >>),
      JObject(<< <<"__metadata__", JString("x")>>, <<"a", TA>> >>),
      JObject(<< <<"__metadata__", JNumber("5")>>, <<"a", TA>> >>),
      JObject(<< <<"__metadata__", JArray(<<JString("k"), JString("v")>>)>>, <<"a", TA>> >>),
      JObject(<< <<"__metadata__", JLiteral("null")>>, <<"a", TA>> >>),
      JObject(<< <<"__metadata__", JObject(<< <<"k", JNumber("1")>>, <<"j", JString("v")>> >>)>>,
                 <<"a", TA>> >>),
      JObject(<< <<"__metadata__", JObject(<< <<"j", JString("v")>>, <<"k", JLiteral("null")>> >>)>>,
                 <<"a", TA>> >>),
      JObject(<< <<"__metadata__", JObject(<< <<"k", JObject(<< <<"n", JString("m")>> >>)>> >>)>>,
                 <<"a", TA>> >>),
      JObject(<< <<"a", JNumber("5")>> >>),
      JObject(<< <<"a", TA>>, <<"b", JArray(<<JNumber("1")>>)>> >>),
      JObject(<< <<"a", TA>>, <<"A", TB>> >>),
      JObjectB(<< <<LongKey(CSAFETENSORS_MAX_STRING_LEN - 1, 120), TA>>,
                  <<LongKey(CSAFETENSORS_MAX_STRING_LEN - 1, 121), TB>> >>),
      JObjectB(<< <<LongKey(CSAFETENSORS_MAX_STRING_LEN, 120), TA>>,
                  <<LongKey(CSAFETENSORS_MAX_STRING_LEN, 121), TB>> >>),
      JObject(<< <<"__metadata__",
                   JObjectB(<< <<LongKey(CSAFETENSORS_MAX_STRING_LEN, 120), JString("v")>>,
                               <<LongKey(CSAFETENSORS_MAX_STRING_LEN, 121), JString("w")>> >>)>>,
                 <<"a", TA>> >>) }

DirectoryCases == {File(r, SmallPayload, 0, DefaultBuild) : r \in Roots}

\* texts the JSON reader stops in, roots that are no object, escapes in keys
Texts ==
    {"{invalid json}", "{\"a\":", "[1,2,3,4,5,6]", "{\"a\":{\"dtype\":\"U8\",}}", "nul1234",
     "\"abcdefgh\"", "{\"a\" 1}", "{\"a\":[1 2]}", "{\"a\":1e}", "{\"a\":\"\\q\"}",
     "{\"a\\u0000b\":1,\"a\\u0000c\":2}", "{\"\\u0061\":1,\"a\":2}",
     " { \"__metadata__\" : { \"k\" : \"\\ud83d\\ude00\" } } ", "{\"k\":\"\\ud83dx\"}"}

TextCases == {File(JText(s), SmallPayload, 0, DefaultBuild) : s \in Texts}

\* small files with one of the first MaxFailAt allocations failing
FailCases ==
    {File(JObject(<< <<"__metadata__", JObject(<< <<"k", JString("v")>> >>)>>,
                     <<"a", Tensor(JString("U8"), Numbers(<<>>), Numbers(<<"0", "1">>))>> >>),
          1, f, DefaultBuild) : f \in 1..MaxFailAt}
        \cup {File(JObject(<<>>), n, f, DefaultBuild) : n \in {0, SmallPayload}, f \in 1..3}

\* a name of 70 bytes, and a name whose 63rd and 64th bytes are written by one \u escape:
\* the buffer of 64 bytes is grown by realloc while the name is read
GrownNames == {Rep(110, 70), Rep(110, 62) \o Bytes("\\u00e9")}

\* the name a text of GrownNames stands for: \u00e9 is the two bytes C3 A9
NameOf(s) == IF Len(s) = 70 THEN s ELSE Rep(110, 62) \o <<195, 169>>

\* files whose tensor name makes json_parse_string call realloc, with one of the first
\* four allocations failing
GrowCases ==
    {Packed(JObjectB(<< <<NameOf(s), JNumber("1")>> >>), Bytes("{\"") \o s \o Bytes("\":1}"),
            0, f, DefaultBuild) :
        s \in GrownNames, f \in 0..4}

\* the inputs of the file loaders: allocation failures at every point, a file shorter than
\* 16 bytes, an empty file, a rejected header
FileCases ==
    FailCases \cup GrowCases
        \cup {File(JObject(<< <<"a", TA>>, <<"b", TB>> >>), SmallPayload, 0, DefaultBuild),
              File(JText("{invalid json}"), 0, 0, DefaultBuild)}
        \cup {c \in PrefixCases : Len(c.data) < 16}

\* a tensor whose name is "__metadata__", a NUL byte and "x", the NUL written as \u0000
NulKeyCase ==
    Packed(JObjectB(<< <<KeyMetadata \o <<0>> \o Bytes("x"), TA>> >>),
           Bytes("{\"__metadata__\\u0000x\":") \o Render(TA) \o Bytes("}"),
           SmallPayload, 0, DefaultBuild)

\* the inputs of the accessors: directories with metadata, offsets beyond the payload,
\* rejected headers
AccessCases ==
    {File(r, SmallPayload, 0, DefaultBuild) :
        r \in {JObject(<<>>),
               JObject(<< <<"a", TA>>, <<"b", TB>> >>),
               JObject(<< <<"b", TB>>, <<"__metadata__", MetaPT>>, <<"a", TA>> >>)}}
        \cup {File(OneTensor(Tensor(JString("U8"), Numbers(<<"6">>), o)), n, 0, DefaultBuild) :
                o \in {Numbers(<<"0", "6">>), Numbers(<<"2", "8">>), Numbers(<<"7", "13">>)},
                n \in {0, SmallPayload}}
        \cup {NulKeyCase,
              File(JObject(<< <<"a", TA>>,
                              <<"b", Tensor(JString("X9"), Numbers(<<"1">>), Numbers(<<"2", "6">>))>> >>),
                   SmallPayload, 0, DefaultBuild)}
        \cup TextCases
        \cup {c \in FailCases : c.fail \in {1, MaxFailAt}}

\* string literals with \u escapes: well-formed ones, then every kind of ill-formed one
EscapeLiterals ==
    {"abc", "\\u0041", "\\u00e9", "\\u20ac", "\\ud83d\\ude00", "\\uD83D\\uDE00", "\\ud7ffz",
     "\\u12", "\\u12g4", "\\u", "\\ud83d", "\\ud83dxxxxxx", "\\ud83d\\u0041", "\\ud83d\\ud83d",
     "\\ud83d\\u12g4", "\\udc00", "\\udfff", "a\\ude00b", "\\uDBFF\\uE000"}

\* headers whose metadata value "k" is one of the literals
EscapeCases ==
    {File(JText("{\"__metadata__\":{\"k\":\"" \o s \o "\"}}"), SmallPayload, 0, DefaultBuild) :
        s \in EscapeLiterals}

\* the two bytes of every half-precision element
HalfCases == {Case(JText(""), <<h % 256, h \div 256>>, 0, DefaultBuild) : h \in 0..65535}

\* exponent fields of a float around every limit of the conversion to half: zero and
\* denormal floats, the smallest halves, 1.0, the largest halves, Inf and NaN
FloatExps == {0, 1, 100, 101, 102, 103, 104, 112, 113, 114, 127, 141, 142, 143, 200, 254, 255}

\* mantissas around the bits that the conversion drops
FloatMants ==
    {0, 1, 4095, 4096, 4097, 8191, 8192, 8193, 12287, 12288, 12289, 16383, 1048576, 2097152,
     4194304, 6291456, 8380416, 8384511, 8384512, 8384513, 8388607}

\* the four bytes of a float element
FloatBytes(s, e, m) ==
    <<m % 256, (m \div 256) % 256, (e % 2) * 128 + m \div 65536, s * 128 + e \div 2>>

FloatCases ==
    {Case(JText(""), FloatBytes(s, e, m), 0, DefaultBuild) :
        s \in {0, 1}, e \in FloatExps, m \in FloatMants}

Cases ==
    PrefixCases \cup ShapeCases \cup OffsetCases \cup SizeCases \cup RangeCases \cup DtypeCases
        \cup DirectoryCases \cup TextCases \cup FailCases \cup EscapeCases \cup {NulDtypeCase}

(***************************************************************************)
(* The state machine: one caller, one buffer, one csafetensors_t.          *)
(* header, data, fail and build are the input (data is also what the file  *)
(* of the file loaders holds); st is the caller's structure; loaded tells  *)
(* that st holds the result of a successful load; held counts the heap     *)
(* blocks, FILE handles and mappings acquired by the calls so far and not  *)
(* released; last records the last call; run is the call in progress when  *)
(* a load is followed step by step (Idle when no call is in progress).     *)
(***************************************************************************)
VARIABLES header, data, fail, build, st, loaded, held, last, run

vars == <<header, data, fail, build, st, loaded, held, last, run>>

MemoryLoaders == {"csafetensors_load_from_memory", "csafetensors_mmap_from_memory"}

FileLoaders == {"csafetensors_load_from_file", "csafetensors_mmap_from_file"}

Loaders == MemoryLoaders \cup FileLoaders

Accessors ==
    {"csafetensors_get_tensor", "csafetensors_get_tensor_by_index",
     "csafetensors_get_tensor_data", "csafetensors_get_metadata"}

\* loaders are called while at most MaxLeaked heap blocks are held that the structure
\* does not point to
MaxLeaked == 0

\* the largest index passed to csafetensors_get_tensor_by_index
MaxIndex == 2

NoResources == [heap |-> 0, files |-> 0, maps |-> 0]

\* what the last call was and did: acquired is what it acquired and had not released
\* at its return, released what it released of the resources held before it; arg and ptr
\* are the argument and the returned pointer of an accessor.  For csafetensors_free, again
\* tells that the call before it was csafetensors_free too, and arg is the number of
\* resources released by the calls of csafetensors_free made in a row
Last(op, o) ==
    [op |-> op, ret |-> o.ret, allocs |-> o.allocs, reader |-> o.reader, oob |-> o.oob, ub |-> o.ub,
     acquired |-> [heap |-> o.heap, files |-> o.files, maps |-> o.maps],
     released |-> NoResources, again |-> FALSE, arg |-> 0, ptr |-> NullPointer,
     events |-> o.events]

Quiet(op, ret) ==
    [op |-> op, ret |-> ret, allocs |-> 0, reader |-> FALSE, oob |-> FALSE, ub |-> FALSE,
     acquired |-> NoResources, released |-> NoResources, again |-> FALSE, arg |-> 0,
     ptr |-> NullPointer, events |-> <<>>]

\* the return of an accessor
Got(op, arg, ptr) ==
    [Quiet(op, IF ptr.null THEN "NULL" ELSE "pointer") EXCEPT !.arg = arg, !.ptr = ptr]

\* st after the loader op returned ret: untouched by the argument check of a loader from
\* memory, else the new load
LoadedAfter(op, ret) ==
    IF op \in MemoryLoaders /\ ret = "CSAFETENSORS_ERROR_INVALID_ARGUMENT" THEN loaded
    ELSE ret = "CSAFETENSORS_SUCCESS"

Plus(a, b) ==
    [heap |-> a.heap + b.heap, files |-> a.files + b.files, maps |-> a.maps + b.maps]

Minus(a, b) ==
    [heap |-> a.heap - b.heap, files |-> a.files - b.files, maps |-> a.maps - b.maps]

Total(a) == a.heap + a.files + a.maps

\* resources held and out of reach of csafetensors_free(st)
Leaked == Minus(held, Released(st))

\* An activation of a function of the JSON reader: fn is the function, pc the point it is
\* at; v, key, str, cap and start are its locals (the array or object being built, the key
\* of the pair being read, the string buffer and its capacity, the start of the number).
\* For the loop the activation is in, enter is the cursor when the loop was entered,
\* iters the number of iterations completed and mark the cursor when the current one began
Frame(fn, pc) ==
    [fn |-> fn, pc |-> pc, v |-> NullPtr, key |-> <<>>, str |-> <<>>, cap |-> 0, start |-> 0,
     enter |-> 0, iters |-> 0, mark |-> 0]

\* no call in progress.  Of a call in progress: op is the loader, phase the part of
\* parse_safetensors_header it is in, p the json_parser_t, stack the activations of the
\* reader (the last is the running one), ret the value the last return handed to its
\* caller, reads the offsets of data dereferenced by the last step, i, j and m the
\* counters of the loops over the parsed tree
Idle ==
    [phase |-> "idle", op |-> "none", p |-> HeaderParser(<<>>, 0, 0), stack |-> <<>>,
     ret |-> NullPtr, reads |-> {}, i |-> 0, j |-> 0, m |-> 0]

\* the caller starts with a buffer of cases and a structure set up by csafetensors_init
InitOver(cases) ==
    \E c \in cases :
        /\ header = c.header
        /\ data = c.data
        /\ fail = c.fail
        /\ build = c.build
        /\ st = csafetensors_init
        /\ loaded = FALSE
        /\ held = NoResources
        /\ last = Quiet("csafetensors_init", "void")
        /\ run = Idle

Init == InitOver(Cases)

\* the return o of the loader op
Loaded(op, o) ==
    /\ st' = o.st
    /\ loaded' = LoadedAfter(op, o.ret)
    /\ last' = Last(op, o)
    /\ held' = Plus(held, last'.acquired)
    /\ UNCHANGED <<run, header, data, fail, build>>

LoadFromMemory ==
    /\ Leaked.heap <= MaxLeaked
    /\ \E o \in {csafetensors_load_from_memory(data, Len(data), st, fail, build)} :
        Loaded("csafetensors_load_from_memory", o)

MmapFromMemory ==
    /\ Leaked.heap <= MaxLeaked
    /\ \E o \in {csafetensors_mmap_from_memory(data, Len(data), st, fail, build)} :
        Loaded("csafetensors_mmap_from_memory", o)

LoadFromFile ==
    /\ Leaked.heap <= MaxLeaked
    /\ \E event \in {"ok", "fopen", "ftell", "fread"} :
        \E o \in {csafetensors_load_from_file(data, st, event, fail, build)} :
            Loaded("csafetensors_load_from_file", o)

MmapFromFile ==
    /\ Leaked.heap <= MaxLeaked
    /\ \E event \in {"ok", "fopen", "ftell", "mmap"} :
        \E o \in {csafetensors_mmap_from_file(data, st, event, fail, build)} :
            Loaded("csafetensors_mmap_from_file", o)

Validate ==
    \E v \in {csafetensors_validate(st)} :
        /\ st' = v.st
        /\ last' = Quiet("csafetensors_validate", IF v.ok THEN "true" ELSE "false")
        /\ UNCHANGED <<run, header, data, fail, build, loaded, held>>

Free ==
    /\ st' = csafetensors_free(st)
    /\ loaded' = FALSE
    /\ held' = Minus(held, Released(st))
    /\ last' = [Quiet("csafetensors_free", "void") EXCEPT
                    !.released = Released(st),
                    !.events = ReleaseCalls(st),
                    !.again = last.op = "csafetensors_free",
                    !.arg = (IF last.op = "csafetensors_free" THEN last.arg ELSE 0)
                                + Total(Released(st))]
    /\ UNCHANGED <<run, header, data, fail, build>>

\* the names and keys the caller asks for: those of the structure and two others
NameArgs ==
    {st.tensors[i].name : i \in 1..st.n_tensors} \cup {st.metadata[i].key : i \in 1..st.n_metadata}
        \cup {Bytes("t"), <<>>}

\* the descriptors the caller passes: those of the structure and one of its own
TensorArgs ==
    {st.tensors[i] : i \in 1..st.n_tensors}
        \cup {ZeroTensor, [ZeroTensor EXCEPT !.data_offset_begin = U64(1), !.data_offset_end = U64(1)]}

GetTensor ==
    \E name \in NameArgs :
        /\ last' = Got("csafetensors_get_tensor", name, csafetensors_get_tensor(st, name))
        /\ UNCHANGED <<run, header, data, fail, build, st, loaded, held>>

GetTensorByIndex ==
    \E index \in 0..MaxIndex :
        /\ last' = Got("csafetensors_get_tensor_by_index", index,
                       csafetensors_get_tensor_by_index(st, index))
        /\ UNCHANGED <<run, header, data, fail, build, st, loaded, held>>

GetTensorData ==
    \E tensor \in TensorArgs :
        /\ last' = Got("csafetensors_get_tensor_data", tensor,
                       csafetensors_get_tensor_data(st, tensor))
        /\ UNCHANGED <<run, header, data, fail, build, st, loaded, held>>

GetMetadata ==
    \E key \in NameArgs :
        /\ last' = Got("csafetensors_get_metadata", key, csafetensors_get_metadata(st, key))
        /\ UNCHANGED <<run, header, data, fail, build, st, loaded, held>>

GetError ==
    /\ last' = Quiet("csafetensors_get_error", csafetensors_get_error(st))
    /\ UNCHANGED <<run, header, data, fail, build, st, loaded, held>>

\* loads from memory, validation and release, over every input
Next == LoadFromMemory \/ MmapFromMemory \/ Validate \/ Free

Spec == Init /\ [][Next]_vars

\* the four loaders and release, over the inputs of FileCases
InitFiles == InitOver(FileCases)

NextFiles == LoadFromMemory \/ MmapFromMemory \/ LoadFromFile \/ MmapFromFile \/ Free

SpecFiles == InitFiles /\ [][NextFiles]_vars

\* the loaders and the operations on a const csafetensors_t, over the inputs of AccessCases
InitAccess == InitOver(AccessCases)

NextAccess ==
    \/ LoadFromMemory
    \/ MmapFromMemory
    \/ LoadFromFile
    \/ MmapFromFile
    \/ Validate
    \/ GetTensor
    \/ GetTensorByIndex
    \/ GetTensorData
    \/ GetMetadata
    \/ GetError

SpecAccess == InitAccess /\ [][NextAccess]_vars

\* the element that data holds
HalfWord(bytes) == bytes[1] + 256 * bytes[2]

FloatWord(bytes) ==
    Float(bytes[4] \div 128, (bytes[4] % 128) * 16777216 + bytes[3] * 65536 + bytes[2] * 256 + bytes[1])

\* the return of a conversion
Converted(op, arg, ret) ==
    /\ last' = [Quiet(op, ret) EXCEPT !.arg = arg]
    /\ UNCHANGED <<run, header, data, fail, build, st, loaded, held>>

HalfToFloat ==
    /\ last.op = "csafetensors_init"
    /\ Len(data) = 2
    /\ Converted("csafetensors_f16_to_f32", HalfWord(data), csafetensors_f16_to_f32(HalfWord(data)))

\* the conversion of the float element, or of the float that the half element gave
FloatToHalf ==
    \E f \in (IF last.op = "csafetensors_f16_to_f32" THEN {last.ret}
              ELSE IF last.op = "csafetensors_init" /\ Len(data) = 4 THEN {FloatWord(data)}
              ELSE {}) :
        Converted("csafetensors_f32_to_f16", f, csafetensors_f32_to_f16(f))

\* the conversions, over every half element and the float elements of FloatCases
InitHalf == InitOver(HalfCases \cup FloatCases)

NextHalf == HalfToFloat \/ FloatToHalf

SpecHalf == InitHalf /\ [][NextHalf]_vars

(***************************************************************************)
(* A load followed step by step.  A step of the reader is what the running *)
(* activation does up to its next call, its return or the end of one       *)
(* iteration of the loop it is in; a step records the offsets of data it   *)
(* dereferences.  The effect of a step on the parser and on the values is  *)
(* that of the same lines in the functions above.                          *)
(***************************************************************************)
Top(r) == r.stack[Len(r.stack)]

\* the running activation goes on as f
Goto(r, f, p, reads) == [r EXCEPT !.stack[Len(r.stack)] = f, !.p = p, !.reads = reads, !.ret = NullPtr]

\* the running activation, now f, calls callee
Call(r, f, callee, p, reads) ==
    [r EXCEPT !.stack = Append(SubSeq(r.stack, 1, Len(r.stack) - 1), f) \o <<callee>>,
              !.p = p, !.reads = reads, !.ret = NullPtr]

\* the running activation returns res.v to its caller; the return of the first
\* json_parse_value ends the reader
Return(r, res, reads) ==
    [r EXCEPT !.stack = SubSeq(r.stack, 1, Len(r.stack) - 1), !.p = res.p, !.reads = reads,
              !.ret = res.v, !.phase = IF Len(r.stack) = 1 THEN "parsed" ELSE @]

\* f enters a loop with the cursor at pos
Enter(f, pos) == [f EXCEPT !.enter = pos, !.iters = 0, !.mark = pos]

\* f begins the next iteration of its loop with the cursor at pos
Again(f, pos) == [f EXCEPT !.iters = @ + 1, !.mark = pos]

\* what "p->pos < p->end && *p->pos ..." and "p->pos >= p->end || *p->pos ..." dereference
Guarded(p) == IF p.pos < p.end THEN {p.pos} ELSE {}

\* a call of json_skip_whitespace
Ws(p) == Enter(Frame("json_skip_whitespace", "loop"), p.pos)

\* a json_skip_whitespace whose loop leaves the cursor where it is
StuckInWhitespace(r, f, p) ==
    IF p.pos < p.end /\ Cur(p) \in WhiteSpace THEN Goto(r, f, p, {p.pos})
    ELSE Return(r, Ret(NullPtr, p), Guarded(p))

\* json_skip_whitespace: one test of the loop condition, and p->pos++ when it holds
InWhitespace(r, f, p) ==
    IF p.pos < p.end /\ Cur(p) \in WhiteSpace
    THEN Goto(r, Again(f, p.pos + 1), Advance(p, 1), {p.pos})
    ELSE Return(r, Ret(NullPtr, p), Guarded(p))

\* a json_match that compares without the check of the length
MatchWithoutLength(p, len) == p.pos..(p.pos + len - 1)

\* the bytes memcmp(p->pos, str, len) reads in json_match, after the check of the length
MatchReads(p, len) == IF p.end - p.pos < len THEN {} ELSE p.pos..(p.pos + len - 1)

\* the literal that json_parse_value matches after the byte c
Literals == (110 :> "null") @@ (116 :> "true") @@ (102 :> "false")

\* the function json_parse_value calls on the byte c
Callees ==
    [c \in {34, 91, 123, 45} \cup Digits |->
        IF c = 34 THEN "json_parse_string"
        ELSE IF c = 91 THEN "json_parse_array"
        ELSE IF c = 123 THEN "json_parse_object"
        ELSE "json_parse_number"]

\* what the switch of json_parse_value dereferences when it calls no parse function
SwitchReads(p) ==
    IF p.pos >= p.end THEN {}
    ELSE IF Cur(p) \in DOMAIN Literals THEN {p.pos} \cup MatchReads(p, Len(Literals[Cur(p)]))
    ELSE {p.pos}

\* json_parse_value: the call of json_skip_whitespace, the switch, the return of what the
\* called parse function returned
InValue(r, f, p) ==
    IF f.pc = "entry" THEN Call(r, [f EXCEPT !.pc = "switch"], Ws(p), p, {})
    ELSE IF f.pc = "switch"
    THEN IF p.pos < p.end /\ Cur(p) \in DOMAIN Callees
         THEN Call(r, [f EXCEPT !.pc = "return"], Frame(Callees[Cur(p)], "entry"), p, {p.pos})
         ELSE Return(r, ValueAt(p), SwitchReads(p))
    ELSE Return(r, Ret(r.ret, p), {})

\* the digits json_parse_unicode_escape reads at offset at: up to the first that is none
HexReads(p, at) ==
    {at + i : i \in {k \in 0..3 : \A n \in 0..(k - 1) : json_hex_digit(Peek(p, at + n)) >= 0}}

\* what json_parse_unicode_escape dereferences, q after "\u"
UnicodeReads(q) ==
    IF q.end - q.pos < 4 THEN {}
    ELSE HexReads(q, q.pos)
            \cup (IF Hex4(q, q.pos) < 55296 \/ Hex4(q, q.pos) > 56319 \/ q.end - (q.pos + 4) < 6
                  THEN {}
                  ELSE {q.pos + 4}
                          \cup (IF Peek(q, q.pos + 4) # 92 THEN {}
                                ELSE {q.pos + 5}
                                        \cup (IF Peek(q, q.pos + 5) # 117 THEN {}
                                              ELSE HexReads(q, q.pos + 6))))

\* the return of false or of NULL after an append that failed
OrError(b, msg) == IF b.ok THEN b ELSE [b EXCEPT !.p.error = msg]

\* the body of the loop of json_parse_string after a backslash, q after it
EscapeBody(q, str, cap) ==
    IF q.pos >= q.end
    THEN Building(FALSE, [q EXCEPT !.error = "Unexpected end of string"], str, cap)
    ELSE IF Cur(q) = 117
    THEN OrError(json_parse_unicode_escape(Advance(q, 1), str, cap), "Invalid unicode escape")
    ELSE IF Cur(q) \in DOMAIN Escapes
    THEN OrError(AppendBytes(Advance(q, 1), str, cap, <<Escapes[Cur(q)]>>), "Memory allocation failed")
    ELSE Building(FALSE, [q EXCEPT !.error = "Invalid escape character"], str, cap)

\* one iteration of the loop of json_parse_string, p at a byte that is not '"'
StringBody(p, str, cap) ==
    IF Cur(p) < 32
    THEN Building(FALSE, [p EXCEPT !.error = "Invalid control character in string"], str, cap)
    ELSE IF Cur(p) = 92 THEN EscapeBody(Advance(p, 1), str, cap)
    ELSE OrError(AppendBytes(Advance(p, 1), str, cap, <<Cur(p)>>), "Memory allocation failed")

\* what that iteration dereferences
BodyReads(p) ==
    IF Cur(p) < 32 \/ Cur(p) # 92 \/ p.pos + 1 >= p.end THEN {p.pos}
    ELSE IF Peek(p, p.pos + 1) # 117 THEN {p.pos, p.pos + 1}
    ELSE {p.pos, p.pos + 1} \cup UnicodeReads(Advance(p, 2))

\* the iteration b of the loop of json_parse_string: the next one, or the return of NULL
StringIterated(r, f, b, reads) ==
    IF b.ok THEN Goto(r, Again([f EXCEPT !.str = b.str, !.cap = b.cap], b.p.pos), b.p, reads)
    ELSE Return(r, StringClose(b), reads)

\* json_parse_string: the opening quote and malloc(cap), then an iteration of the loop,
\* or what follows the loop
InString(r, f, p) ==
    IF f.pc = "entry"
    THEN IF Cur(p) # 34 THEN Return(r, Fail(p, "Expected '\"' at position %zu"), {p.pos})
         ELSE IF AllocFails(p)
         THEN Return(r, Fail(Alloc(Advance(p, 1)), "Memory allocation failed"), {p.pos})
         ELSE Goto(r, Enter([f EXCEPT !.pc = "loop", !.cap = 64], p.pos + 1),
                   Alloc(Advance(p, 1)), {p.pos})
    ELSE IF p.pos >= p.end \/ Cur(p) = 34
    THEN Return(r, StringClose(Building(TRUE, p, f.str, f.cap)), Guarded(p))
    ELSE StringIterated(r, f, StringBody(p, f.str, f.cap), BodyReads(p))

\* one test of the condition of a loop over digits of json_parse_number; next is the
\* point after the loop
InDigits(r, f, p, next) ==
    IF p.pos < p.end /\ Cur(p) \in Digits
    THEN Goto(r, Again(f, p.pos + 1), Advance(p, 1), {p.pos})
    ELSE Goto(r, [f EXCEPT !.pc = next], p, Guarded(p))

\* json_parse_number from its first line to the loop over the integer digits; q is the
\* parser after the sign
NumberEntry(r, f, p, q) ==
    IF q.pos >= q.end THEN Return(r, Fail(q, "Unexpected end of number"), {p.pos})
    ELSE IF Cur(q) = 48
    THEN Goto(r, [f EXCEPT !.pc = "fraction", !.start = p.pos], Advance(q, 1), {p.pos, q.pos})
    ELSE IF Cur(q) \in 49..57
    THEN Goto(r, Enter([f EXCEPT !.pc = "integer", !.start = p.pos], q.pos), q, {p.pos, q.pos})
    ELSE Return(r, Fail(q, "Invalid number"), {p.pos, q.pos})

\* "if (p->pos < p->end && *p->pos == '.')" up to the loop over the digits of the fraction
NumberFraction(r, f, p) ==
    IF ~HasFrac(p) THEN Goto(r, [f EXCEPT !.pc = "exponent"], p, Guarded(p))
    ELSE IF ~DigitAt(Advance(p, 1))
    THEN Return(r, Fail(Advance(p, 1), "Invalid number"), {p.pos} \cup Guarded(Advance(p, 1)))
    ELSE Goto(r, Enter([f EXCEPT !.pc = "fraction digits"], p.pos + 1), Advance(p, 1),
              {p.pos, p.pos + 1})

\* "if (p->pos < p->end && (*p->pos == 'e' || *p->pos == 'E'))" up to the loop over the
\* digits of the exponent; q is the parser after the sign of the exponent
NumberExponent(r, f, p, q) ==
    IF ~HasExp(p) THEN Goto(r, [f EXCEPT !.pc = "end"], p, Guarded(p))
    ELSE IF ~DigitAt(q)
    THEN Return(r, Fail(q, "Invalid number exponent"),
                {p.pos} \cup Guarded(Advance(p, 1)) \cup Guarded(q))
    ELSE Goto(r, Enter([f EXCEPT !.pc = "exponent digits"], q.pos), q,
              {p.pos, p.pos + 1, q.pos})

\* json_parse_number; its last step is the memcpy of the bytes of the number into numstr
InNumber(r, f, p) ==
    IF f.pc = "entry" THEN NumberEntry(r, f, p, IF Cur(p) = 45 THEN Advance(p, 1) ELSE p)
    ELSE IF f.pc = "integer" THEN InDigits(r, f, p, "fraction")
    ELSE IF f.pc = "fraction" THEN NumberFraction(r, f, p)
    ELSE IF f.pc = "fraction digits" THEN InDigits(r, f, p, "exponent")
    ELSE IF f.pc = "exponent" THEN NumberExponent(r, f, p, SkipSign(Advance(p, 1)))
    ELSE IF f.pc = "exponent digits" THEN InDigits(r, f, p, "end")
    ELSE Return(r, NumberEnd(p, f.start), f.start..(p.pos - 1))

\* the first lines of json_parse_array and json_parse_object: the opening byte open and
\* json_alloc_value, a the value allocated
Opened(r, f, p, a) ==
    IF IsNull(a.v) THEN Return(r, Fail(a.p, "Memory allocation failed"), {p.pos})
    ELSE Call(r, [f EXCEPT !.pc = "first", !.v = a.v], Ws(a.p), a.p, {p.pos})

\* the array or object v with one more slot when it is full
Room(v, count) == [v EXCEPT !.capacity = IF count >= v.capacity THEN NewCap(@) ELSE @]

\* the parser after the realloc that makes that room
RoomParser(p, v, count) == IF count >= v.capacity THEN Realloc(p, v.capacity > 0) ELSE p

\* json_parse_array after the return of json_parse_value: the item is stored
ArrayStored(r, f, p) ==
    IF IsNull(r.ret) THEN Return(r, Ret(NullPtr, json_free_value(p, f.v)), {})
    ELSE IF Len(f.v.items) >= f.v.capacity /\ AllocFails(p)
    THEN Return(r, Fail(json_free_value(json_free_value(Realloc(p, f.v.capacity > 0), r.ret), f.v),
                        "Memory allocation failed"), {})
    ELSE Call(r, [f EXCEPT !.pc = "next",
                           !.v = [Room(f.v, Len(f.v.items)) EXCEPT !.items = Append(@, r.ret)]],
              Ws(RoomParser(p, f.v, Len(f.v.items))), RoomParser(p, f.v, Len(f.v.items)), {})

\* after the item or pair: the closing byte close, or the comma and the next iteration
Separator(r, f, p, close, atEnd, other) ==
    IF p.pos >= p.end THEN Return(r, Fail(json_free_value(p, f.v), atEnd), {})
    ELSE IF Cur(p) = close THEN Return(r, Ret(f.v, Advance(p, 1)), {p.pos})
    ELSE IF Cur(p) # 44 THEN Return(r, Fail(json_free_value(p, f.v), other), {p.pos})
    ELSE Call(r, [f EXCEPT !.pc = "again"], Ws(Advance(p, 1)), Advance(p, 1), {p.pos})

\* json_parse_array
InArray(r, f, p) ==
    IF f.pc = "entry"
    THEN IF Cur(p) # 91 THEN Return(r, Fail(p, "Expected '[' at position %zu"), {p.pos})
         ELSE Opened(r, f, p, json_alloc_value(Advance(p, 1),
                                               [type |-> "array", items |-> <<>>, capacity |-> 0]))
    ELSE IF f.pc = "first"
    THEN IF p.pos < p.end /\ Cur(p) = 93 THEN Return(r, Ret(f.v, Advance(p, 1)), {p.pos})
         ELSE Call(r, Enter([f EXCEPT !.pc = "stored"], p.pos), Frame("json_parse_value", "entry"),
                   p, Guarded(p))
    ELSE IF f.pc = "again"
    THEN Call(r, Again([f EXCEPT !.pc = "stored"], p.pos), Frame("json_parse_value", "entry"), p, {})
    ELSE IF f.pc = "stored" THEN ArrayStored(r, f, p)
    ELSE Separator(r, f, p, 93, "Unexpected end of array", "Expected ',' or ']' in array")

\* the head of the loop of json_parse_object: the key
ObjectHead(r, f, p) ==
    IF p.pos >= p.end \/ Cur(p) # 34
    THEN Return(r, Fail(json_free_value(p, f.v), "Expected string key in object"), Guarded(p))
    ELSE Call(r, [f EXCEPT !.pc = "keyed"], Frame("json_parse_string", "entry"), p, {p.pos})

\* after the return of json_parse_string: the key is taken out of key_val, which is freed
ObjectKeyed(r, f, p) ==
    IF IsNull(r.ret) THEN Return(r, Ret(NullPtr, json_free_value(p, f.v)), {})
    ELSE Call(r, [f EXCEPT !.pc = "colon", !.key = r.ret.string], Ws(FreeBlock(p)), FreeBlock(p), {})

ObjectAtColon(r, f, p) ==
    IF p.pos >= p.end \/ Cur(p) # 58
    THEN Return(r, Fail(json_free_value(FreeBlock(p), f.v), "Expected ':' after key"), Guarded(p))
    ELSE Call(r, [f EXCEPT !.pc = "valued"], Frame("json_parse_value", "entry"), Advance(p, 1),
              {p.pos})

\* after the return of json_parse_value: the duplicate check, and the pair is stored
ObjectValued(r, f, p) ==
    IF IsNull(r.ret) THEN Return(r, Ret(NullPtr, json_free_value(FreeBlock(p), f.v)), {})
    ELSE IF DuplicateKey(f.v, f.key)
    THEN Return(r, Fail(json_free_value(json_free_value(FreeBlock(p), r.ret), f.v),
                        "Duplicate key in object"), {})
    ELSE IF Len(f.v.pairs) >= f.v.capacity /\ AllocFails(p)
    THEN Return(r, Fail(json_free_value(json_free_value(FreeBlock(Realloc(p, f.v.capacity > 0)),
                                                        r.ret), f.v),
                        "Memory allocation failed"), {})
    ELSE Call(r, [f EXCEPT !.pc = "next",
                           !.v = [Room(f.v, Len(f.v.pairs)) EXCEPT
                                      !.pairs = Append(@, [key |-> f.key, value |-> r.ret])]],
              Ws(RoomParser(p, f.v, Len(f.v.pairs))), RoomParser(p, f.v, Len(f.v.pairs)), {})

\* json_parse_object
InObject(r, f, p) ==
    IF f.pc = "entry"
    THEN IF Cur(p) # 123 THEN Return(r, Fail(p, "Expected '{' at position %zu"), {p.pos})
         ELSE Opened(r, f, p, json_alloc_value(Advance(p, 1),
                                               [type |-> "object", pairs |-> <<>>, capacity |-> 0]))
    ELSE IF f.pc = "first"
    THEN IF p.pos < p.end /\ Cur(p) = 125 THEN Return(r, Ret(f.v, Advance(p, 1)), {p.pos})
         ELSE ObjectHead(r, Enter(f, p.pos), p)
    ELSE IF f.pc = "again" THEN ObjectHead(r, Again(f, p.pos), p)
    ELSE IF f.pc = "keyed" THEN ObjectKeyed(r, f, p)
    ELSE IF f.pc = "colon" THEN ObjectAtColon(r, f, p)
    ELSE IF f.pc = "valued" THEN ObjectValued(r, f, p)
    ELSE Separator(r, f, p, 125, "Unexpected end of object", "Expected ',' or '}' in object")

\* the root the two loops of parse_safetensors_header run over
RootPairs(r) == r.ret.pairs

\* after json_parse_value: the checks of root, then the loop that counts
AfterReader(r) ==
    IF IsNull(r.ret) \/ r.ret.type # "object" THEN [r EXCEPT !.phase = "done", !.reads = {}]
    ELSE [r EXCEPT !.phase = "count", !.reads = {}, !.i = 0]

\* one of the two calloc calls after the counting loop returns NULL
DirectoryFails(r, ntensors, nmetadata) ==
    \/ ntensors > 0 /\ r.p.fail = r.p.allocs + 1
    \/ nmetadata > 0 /\ r.p.fail = r.p.allocs + Callocs(ntensors) + 1

\* the loop "for (i = 0; i < root->data.object.count; i++)" that counts, one iteration at
\* a time, and the two calloc calls after it
Counting(r) ==
    IF r.i < Len(RootPairs(r)) THEN [r EXCEPT !.i = @ + 1]
    ELSE IF DirectoryFails(r, Len(TensorPairs(r.ret)), Len(MetadataPairs(MetadataObjects(r.ret))))
    THEN [r EXCEPT !.phase = "done"]
    ELSE [r EXCEPT !.phase = "fill", !.i = 0, !.j = 0, !.m = 0]

\* one iteration of the loop over the pairs of "__metadata__", e the pair of the root
FillingMetadata(r, e, nmetadata) ==
    IF e.value.type = "object" /\ r.j < Len(e.value.pairs) /\ r.m < nmetadata
    THEN [r EXCEPT !.j = @ + 1,
                   !.m = IF e.value.pairs[r.j + 1].value.type = "string" THEN @ + 1 ELSE @]
    ELSE [r EXCEPT !.i = @ + 1, !.j = 0]

\* the second loop over the pairs of the root, one iteration at a time: it returns at the
\* first tensor parse_tensor rejects
FillingPairs(r, b) ==
    IF r.i >= Len(RootPairs(r)) THEN [r EXCEPT !.phase = "done"]
    ELSE IF IsMetadataKey(RootPairs(r)[r.i + 1])
    THEN FillingMetadata(r, RootPairs(r)[r.i + 1], Len(MetadataPairs(MetadataObjects(r.ret))))
    ELSE IF ~parse_tensor(RootPairs(r)[r.i + 1].key, RootPairs(r)[r.i + 1].value, b).ok
    THEN [r EXCEPT !.phase = "done"]
    ELSE [r EXCEPT !.i = @ + 1]

\* the prefix checks reject the buffer: the reader is not entered
PrefixRejects(buffer) ==
    \/ Len(buffer) < 16
    \/ HeaderTooSmall(HeaderSizeOf(buffer))
    \/ HeaderOverLimit(HeaderSizeOf(buffer))
    \/ HeaderOverData(HeaderSizeOf(buffer), Len(buffer))

\* the call of the loader op up to the first call of json_parse_value
Begun(op, buffer, f) ==
    IF PrefixRejects(buffer) THEN [Idle EXCEPT !.phase = "done", !.op = op]
    ELSE [Idle EXCEPT !.phase = "reader", !.op = op,
                      !.p = HeaderParser(buffer, ToNat(HeaderSizeOf(buffer)), f),
                      !.stack = <<Frame("json_parse_value", "entry")>>]

Begin(op) ==
    /\ run.phase = "idle"
    /\ Leaked.heap <= MaxLeaked
    /\ st' = IF Len(data) < 16 THEN st ELSE csafetensors_init
    /\ run' = Begun(op, data, fail)
    /\ UNCHANGED <<header, data, fail, build, loaded, held, last>>

BeginLoad == Begin("csafetensors_load_from_memory")

BeginMmap == Begin("csafetensors_mmap_from_memory")

\* the running activation is one of fn
Running(fn) == run.phase = "reader" /\ Top(run).fn = fn

Stepped(r) ==
    /\ run' = r
    /\ UNCHANGED <<header, data, fail, build, st, loaded, held, last>>

SkipWhitespace == Running("json_skip_whitespace") /\ Stepped(InWhitespace(run, Top(run), run.p))

ParseValue == Running("json_parse_value") /\ Stepped(InValue(run, Top(run), run.p))

ParseString == Running("json_parse_string") /\ Stepped(InString(run, Top(run), run.p))

ParseNumber == Running("json_parse_number") /\ Stepped(InNumber(run, Top(run), run.p))

ParseArray == Running("json_parse_array") /\ Stepped(InArray(run, Top(run), run.p))

ParseObject == Running("json_parse_object") /\ Stepped(InObject(run, Top(run), run.p))

CheckRoot == run.phase = "parsed" /\ Stepped(AfterReader(run))

CountKeys == run.phase = "count" /\ Stepped(Counting(run))

FillDirectory == run.phase = "fill" /\ Stepped(FillingPairs(run, build))

\* the return of the loader: what the call as a whole leaves
LoaderOutcome(op) ==
    IF op = "csafetensors_load_from_memory"
    THEN csafetensors_load_from_memory(data, Len(data), st, fail, build)
    ELSE csafetensors_mmap_from_memory(data, Len(data), st, fail, build)

LoadReturns ==
    /\ run.phase = "done"
    /\ \E o \in {LoaderOutcome(run.op)} :
        /\ st' = o.st
        /\ loaded' = LoadedAfter(run.op, o.ret)
        /\ last' = Last(run.op, o)
        /\ held' = Plus(held, last'.acquired)
    /\ run' = Idle
    /\ UNCHANGED <<header, data, fail, build>>

\* a step of the call in progress before its return
Proceed ==
    \/ SkipWhitespace
    \/ ParseValue
    \/ ParseString
    \/ ParseNumber
    \/ ParseArray
    \/ ParseObject
    \/ CheckRoot
    \/ CountKeys
    \/ FillDirectory

\* what LoadReturns does to the call in progress
Returns == run.phase = "done" /\ run' = Idle

\* headers cut at every length: the bytes after the cut are payload
CutTexts ==
    {"{\"a\":{\"dtype\":\"U8\",\"shape\":[1,2],\"data_offsets\":[0,2]}}  ",
     "{\"k\":[null,true,false,-1.5e+3,\"\\u00e9\\ud83d\\ude00\\n\"]} ",
     " [ 10 , 0.25 , 1E2 ] "}

CutCases ==
    {Case(JText(s), U64(k) \o Bytes(s) \o Payload(MaxPad), 0, DefaultBuild) :
        s \in CutTexts, k \in 0..68}

\* arrays and objects nested MaxNest deep and less, closed and left open
MaxNest == 6

NestTexts ==
    {Rep(91, k) \o Rep(93, k) : k \in 1..MaxNest}
        \cup {Rep(91, k) : k \in 2..MaxNest}
        \cup {Bytes("{\"a\":") \o Rep(91, MaxNest) \o Rep(93, MaxNest) \o Bytes("}"),
              Bytes("{\"a\":{\"b\":{\"c\":{\"d\":{\"e\":{}}}}}}")}

NestCases ==
    {Case(JText(""), U64(Len(t)) \o t \o Payload(SmallPayload + MaxNest), 0, DefaultBuild) :
        t \in NestTexts}

ReaderCases ==
    CutCases \cup NestCases \cup TextCases \cup EscapeCases \cup FailCases \cup GrowCases
        \cup AccessCases \cup {c \in PrefixCases : Len(c.data) < 20}

InitReader == InitOver(ReaderCases)

NextReader == BeginLoad \/ BeginMmap \/ Proceed \/ LoadReturns

SpecReader == InitReader /\ [][NextReader]_vars

\* json_parse_number is at its last step: malloc, memcpy, strtod and json_alloc_value
NumberDone == Running("json_parse_number") /\ Top(run).pc = "end"

\* the steps of json_parse_number before the last
ScanNumber == ~NumberDone /\ ParseNumber

\* A call in progress goes on to its next step and, when it is done, returns: the code
\* runs on its caller's thread and nothing suspends it.  The caller is not bound to call.
\* The last step of json_parse_number and the return of the loader disable themselves:
\* the weak fairness of the first is []<>~NumberDone, and the steps of SpecReader that
\* are Returns steps are the LoadReturns steps
SpecReaderFair ==
    /\ SpecReader
    /\ WF_vars(SkipWhitespace \/ ParseValue \/ ParseString \/ ScanNumber \/ ParseArray
                   \/ ParseObject \/ CheckRoot \/ CountKeys \/ FillDirectory)
    /\ []<>~NumberDone
    /\ WF_run(Returns)

\* the step-by-step reader returns what json_parse_value returns
ReaderAgrees ==
    run.phase = "parsed" =>
        Ret(run.ret, run.p) = json_parse_value(HeaderParser(data, ToNat(HeaderSizeOf(data)), fail))

(***************************************************************************)
(* What the properties speak of: exact quantities of the input and of the  *)
(* loaded structure, in arithmetic of any size.                            *)
(***************************************************************************)
Succeeded == last.op \in Loaders /\ last.ret = "CSAFETENSORS_SUCCESS"

\* the 64-bit prefix H of a buffer of 8 bytes or more, as a number
PrefixValue == SubSeq(data, 1, 8)

\* size >= 16, 2 <= H <= 100 MiB and 8 + H <= size, nothing wrapping
PrefixAdmissible ==
    /\ Len(data) >= 16
    /\ BigLe(<<2>>, PrefixValue)
    /\ BigLe(PrefixValue, BigOf(100 * 1024 * 1024))
    /\ BigLe(BigAdd(<<8>>, PrefixValue), BigOf(Len(data)))

\* the length of the payload of a loaded buffer
PayloadLen == Len(data) - 8 - st.header_size

\* the product of the first n dimensions, unbounded
RECURSIVE ExactCount(_, _)
ExactCount(shape, n) == IF n = 0 THEN <<1>> ELSE BigMul(ExactCount(shape, n - 1), shape[n])

\* the byte size of a descriptor: element count times dtype size, unbounded
ExactBytes(t) == BigMul(ExactCount(t.shape, t.n_dims), BigOf(csafetensors_dtype_size(t.dtype)))

NonEmpty(t) == \A i \in 1..t.n_dims : ~BigEq(t.shape[i], <<0>>)

\* begin <= end <= payload length and end - begin = byte size
OffsetsExact(t) ==
    /\ BigLe(t.data_offset_begin, t.data_offset_end)
    /\ BigLe(t.data_offset_end, BigOf(PayloadLen))
    /\ BigEq(t.data_offset_end, BigAdd(t.data_offset_begin, ExactBytes(t)))

(***************************************************************************)
(* C1.  The loaders succeed only on a buffer of 16 bytes or more whose     *)
(* prefix H has 2 <= H <= 100 MiB and 8 + H <= size (compared without      *)
(* wraparound); every other buffer is rejected before the JSON reader is   *)
(* entered and before anything is allocated; a loaded structure has        *)
(* header_size = H.                                                        *)
(***************************************************************************)
C1_PrefixChecked ==
    /\ last.op \in Loaders =>
        /\ last.ret = "CSAFETENSORS_SUCCESS" => PrefixAdmissible
        /\ ~PrefixAdmissible =>
            last.ret # "CSAFETENSORS_SUCCESS" /\ ~last.reader /\ last.allocs = 0
    /\ loaded => PrefixAdmissible /\ BigEq(BigOf(st.header_size), PrefixValue)

\* a load that succeeds with 8 + H = size
C1_Witness == Succeeded /\ Len(data) = 8 + st.header_size /\ st.header_size > 2

(***************************************************************************)
(* C2.  On a loaded structure csafetensors_validate returns true exactly   *)
(* when every tensor without a zero dimension has begin <= end <= payload  *)
(* length and end - begin = element count x dtype size, the element count  *)
(* being the unbounded product of the dimensions.                          *)
(***************************************************************************)
C2_ValidateExact ==
    (loaded /\ last.op = "csafetensors_validate") =>
        (last.ret = "true" <=>
            \A k \in 1..st.n_tensors : NonEmpty(st.tensors[k]) => OffsetsExact(st.tensors[k]))

(***************************************************************************)
(* C3.  After a successful load, csafetensors_validate returns false when  *)
(* some tensor's end offset exceeds the payload length or its end - begin  *)
(* differs from its byte size.                                             *)
(***************************************************************************)
C3_ValidateRejects ==
    (loaded /\ last.op = "csafetensors_validate"
        /\ \E k \in 1..st.n_tensors :
              \/ BigLt(BigOf(PayloadLen), st.tensors[k].data_offset_end)
              \/ ~BigEq(st.tensors[k].data_offset_end,
                        BigAdd(st.tensors[k].data_offset_begin, ExactBytes(st.tensors[k]))))
        => last.ret = "false"

(***************************************************************************)
(* The header as the input describes it.  A shape dimension of the header  *)
(* is its JSON number read as a double and converted to size_t.            *)
(***************************************************************************)
\* the buffer holds the text of an object, under its true length
Described == header.t = "object"

Failed == last.op \in Loaders /\ last.ret # "CSAFETENSORS_SUCCESS"

HasMember(j, key) == j.t = "object" /\ \E i \in 1..Len(j.keys) : j.keys[i] = key

\* the first member of that name
Member(j, key) ==
    IF HasMember(j, key) THEN j.items[Min({i \in 1..Len(j.keys) : j.keys[i] = key})] ELSE Absent

\* the members of the root other than "__metadata__", in the order of the text
TensorIndex ==
    IF Described
    THEN SelectSeq([i \in 1..Len(header.keys) |-> i], LAMBDA i : header.keys[i] # KeyMetadata)
    ELSE <<>>

TensorEntries == [k \in 1..Len(TensorIndex) |-> header.items[TensorIndex[k]]]

ArrayItems(j) == IF j.t = "array" THEN j.items ELSE <<>>

NumberItems(j) == SelectSeq(ArrayItems(j), LAMBDA x : x.t = "number")

Dimension(x) == DoubleToSizeT(strtod(x.text), build)

\* some dimension of the entry's shape is 0
HasZeroDim(e) ==
    \E i \in 1..Len(NumberItems(Member(e, KeyShape))) :
        Dimension(NumberItems(Member(e, KeyShape))[i]) = U64Zero

\* the entry has no "data_offsets" array of two elements
LacksOffsets(e) ==
    Member(e, KeyDataOffsets).t # "array" \/ Len(Member(e, KeyDataOffsets).items) # 2

\* some object of the description holds a key twice
RECURSIVE HasDuplicateKey(_)
HasDuplicateKey(j) ==
    \/ j.t = "object" /\ \E a, b \in 1..Len(j.keys) : a < b /\ j.keys[a] = j.keys[b]
    \/ \E i \in 1..Len(j.items) : HasDuplicateKey(j.items[i])

\* an entry that is an empty tensor with nothing else wrong: a known dtype, a shape of
\* at most CSAFETENSORS_MAX_DIM numbers with a zero among them, no data_offsets
PlainEmptyTensor(e) ==
    /\ Member(e, KeyDtype).t = "string"
    /\ parse_dtype_string(Member(e, KeyDtype).text) # "none"
    /\ Member(e, KeyShape).t = "array"
    /\ Len(Member(e, KeyShape).items) <= CSAFETENSORS_MAX_DIM
    /\ \A i \in 1..Len(Member(e, KeyShape).items) : Member(e, KeyShape).items[i].t = "number"
    /\ HasZeroDim(e)
    /\ ~HasMember(e, KeyDataOffsets)
    /\ ~HasDuplicateKey(e)

\* The exact value of a number token: all digits of the mantissa, and how many of them
\* stand before the decimal point once the exponent is applied
TokDigits(s) ==
    [i \in 1..(Len(IntDigits(s)) + (IF DotAt(s) < ExpAt(s) THEN ExpAt(s) - DotAt(s) - 1 ELSE 0)) |->
        IF i <= Len(IntDigits(s)) THEN IntDigits(s)[i] ELSE FracDigits(s)[i - Len(IntDigits(s))]]

TokPoint(s) == Len(IntDigits(s)) + Exponent(s)

TokZero(s) == \A i \in 1..Len(TokDigits(s)) : TokDigits(s)[i] = 0

TokNegative(s) == s[1] = Ch("-") /\ ~TokZero(s)

TokFractional(s) == \E i \in 1..Len(TokDigits(s)) : i > TokPoint(s) /\ TokDigits(s)[i] # 0

\* the digits of the integer part
TokInteger(s) ==
    IF TokPoint(s) >= Len(TokDigits(s))
    THEN StripZeros(TokDigits(s)) \o ZeroPad(TokPoint(s) - Len(TokDigits(s)))
    ELSE IF TokPoint(s) <= 0 THEN <<>>
    ELSE StripZeros(SubSeq(TokDigits(s), 1, TokPoint(s)))

\* the integer part is 2^53 or more
TokLarge(s) ==
    ~TokZero(s) /\ (Len(TokInteger(s)) > 16 \/ BigLe(Pow2Big(53), DecBig(TokInteger(s))))

\* negative, non-integral or not below 2^53
Inadmissible(x) == TokNegative(x.text) \/ TokFractional(x.text) \/ TokLarge(x.text)

HasInadmissible(j) ==
    \E i \in 1..Len(NumberItems(j)) : Inadmissible(NumberItems(j)[i])

(***************************************************************************)
(* C4.  For every tensor entry of the header, presence of "data_offsets"   *)
(* matches emptiness: an entry with a zero dimension that carries          *)
(* data_offsets makes the load fail; an entry with no zero dimension       *)
(* (scalars included) that lacks a two-element data_offsets array makes    *)
(* the load fail; an empty tensor without data_offsets is loaded with      *)
(* offsets (0, 0), and a header whose single entry is such a tensor does   *)
(* load.                                                                   *)
(***************************************************************************)
C4_OffsetsMatchEmptiness ==
    (Described /\ last.op \in Loaders) =>
        /\ \A k \in 1..Len(TensorEntries) :
            /\ (HasZeroDim(TensorEntries[k]) /\ HasMember(TensorEntries[k], KeyDataOffsets))
                  => Failed
            /\ (~HasZeroDim(TensorEntries[k]) /\ LacksOffsets(TensorEntries[k])) => Failed
            /\ (Succeeded /\ HasZeroDim(TensorEntries[k])) =>
                  /\ st.tensors[k].data_offset_begin = U64Zero
                  /\ st.tensors[k].data_offset_end = U64Zero
        /\ (Len(header.keys) = 1 /\ Len(TensorEntries) = 1 /\ PlainEmptyTensor(TensorEntries[1])
              /\ fail = 0) => Succeeded /\ st.n_tensors = 1

\* an empty tensor of three dimensions without data_offsets has been loaded
C4_Witness ==
    /\ Succeeded
    /\ Len(TensorEntries) = 1
    /\ PlainEmptyTensor(TensorEntries[1])
    /\ st.tensors[1].n_dims = 3
    /\ st.tensors[1].shape[2] = U64Zero
    /\ st.tensors[1].data_offset_end = U64Zero

(***************************************************************************)
(* C5.  After every successful load every tensor descriptor has            *)
(* data_offset_begin <= data_offset_end.                                   *)
(***************************************************************************)
C5_BeginBeforeEnd ==
    loaded =>
        \A k \in 1..st.n_tensors :
            U64Le(st.tensors[k].data_offset_begin, st.tensors[k].data_offset_end)

(***************************************************************************)
(* C6.  A load fails whenever an entry of a tensor's shape or data_offsets *)
(* is a JSON number that is negative, non-integral or not below 2^53.      *)
(***************************************************************************)
C6_NumbersChecked ==
    (Described /\ last.op \in Loaders
        /\ \E k \in 1..Len(TensorEntries) :
              \/ HasInadmissible(Member(TensorEntries[k], KeyShape))
              \/ HasInadmissible(Member(TensorEntries[k], KeyDataOffsets)))
        => Failed

(***************************************************************************)
(* C7.  After every successful load the tensor names stored in the         *)
(* descriptors are pairwise distinct and the stored metadata keys are      *)
(* pairwise distinct, whatever the length of the header keys.              *)
(***************************************************************************)
C7_NamesDistinct ==
    loaded =>
        /\ \A i, j \in 1..st.n_tensors :
              i # j => ~StrEq(st.tensors[i].name, st.tensors[j].name)
        /\ \A i, j \in 1..st.n_metadata :
              i # j => ~StrEq(st.metadata[i].key, st.metadata[j].key)

(***************************************************************************)
(* C8.  If any JSON object of the header, at any nesting level, holds the  *)
(* same key twice, the JSON reader fails and the load returns an error:    *)
(* CSAFETENSORS_ERROR_JSON_PARSE, with the reader's message when no        *)
(* allocation failed, and the structure is not loaded.                     *)
(***************************************************************************)
C8_DuplicateKeyRejected ==
    (Described /\ last.op \in Loaders /\ HasDuplicateKey(header)) =>
        /\ last.ret = "CSAFETENSORS_ERROR_JSON_PARSE"
        /\ last.reader
        /\ ~loaded
        /\ st.n_tensors = 0
        /\ fail = 0 => st.error_msg = "JSON parse error: Duplicate key in object"

\* a load has failed on a key repeated below the root, whose own keys are distinct
C8_Witness ==
    /\ Failed
    /\ Described
    /\ \A a, b \in 1..Len(header.keys) : a # b => header.keys[a] # header.keys[b]
    /\ \E i \in 1..Len(header.items) :
          /\ header.items[i].t = "object"
          /\ \A a, b \in 1..Len(header.items[i].keys) :
                a # b => header.items[i].keys[a] # header.items[i].keys[b]
          /\ HasDuplicateKey(header.items[i])
    /\ st.error_msg = "JSON parse error: Duplicate key in object"

(***************************************************************************)
(* C9.  A load fails when the top-level "__metadata__" value is not a JSON *)
(* object or when a value inside it is not a string; on success every      *)
(* pair of that object is recorded, so n_metadata is the number of its     *)
(* entries.                                                                *)
(***************************************************************************)
C9_MetadataStrict ==
    (Described /\ last.op \in Loaders /\ HasMember(header, KeyMetadata)) =>
        /\ Member(header, KeyMetadata).t # "object" => Failed
        /\ (\E i \in 1..Len(Member(header, KeyMetadata).items) :
               Member(header, KeyMetadata).t = "object"
               /\ Member(header, KeyMetadata).items[i].t # "string") => Failed
        /\ (Succeeded /\ Member(header, KeyMetadata).t = "object") =>
               st.n_metadata = Len(Member(header, KeyMetadata).items)

(***************************************************************************)
(* C10.  Every descriptor of a loaded structure has n_dims <= 8; a tensor  *)
(* entry whose shape array has more than 8 entries makes the load fail;    *)
(* no call stores to an element of shape[] beyond index 7.                 *)
(***************************************************************************)
C10_DimsBounded ==
    /\ loaded => \A k \in 1..st.n_tensors : st.tensors[k].n_dims <= CSAFETENSORS_MAX_DIM
    /\ (Described /\ last.op \in Loaders
          /\ \E k \in 1..Len(TensorEntries) :
                Len(ArrayItems(Member(TensorEntries[k], KeyShape))) > CSAFETENSORS_MAX_DIM)
          => Failed /\ ~loaded
    /\ ~last.oob

\* a load has failed on a shape of nine numbers
C10_Witness ==
    /\ Failed
    /\ Len(TensorEntries) = 1
    /\ Len(NumberItems(Member(TensorEntries[1], KeyShape))) = CSAFETENSORS_MAX_DIM + 1
    /\ st.error_msg = "Tensor '%s' has too many dimensions (%zu)"
    /\ ~last.oob

\* the string members of the header's "__metadata__" object, in the order of the text
MetadataMembers ==
    IF Described /\ Member(header, KeyMetadata).t = "object"
    THEN SelectSeq([i \in 1..Len(Member(header, KeyMetadata).keys) |->
                       [key |-> Member(header, KeyMetadata).keys[i],
                        value |-> Member(header, KeyMetadata).items[i]]],
                   LAMBDA e : e.value.t = "string")
    ELSE <<>>

\* the header is a description and st holds its successful load
LoadedDescribed == Described /\ loaded

(***************************************************************************)
(* C11.  After a successful load n_tensors is the number of top-level keys *)
(* of the header other than "__metadata__"; the descriptor returned by     *)
(* csafetensors_get_tensor_by_index(i) is element i of the directory and   *)
(* carries the name and dtype of the i-th such key in the order of the     *)
(* header text; the stored metadata entries are the string members of the  *)
(* "__metadata__" object in their order.                                   *)
(***************************************************************************)
C11_DirectoryOrder ==
    LoadedDescribed =>
        /\ st.n_tensors = Len(TensorIndex)
        /\ (last.op = "csafetensors_get_tensor_by_index" /\ last.arg < Len(TensorIndex)) =>
              /\ ~last.ptr.null
              /\ last.ptr.at = last.arg
              /\ st.tensors[last.ptr.at + 1].name = header.keys[TensorIndex[last.arg + 1]]
              /\ st.tensors[last.ptr.at + 1].dtype =
                    parse_dtype_string(Member(TensorEntries[last.arg + 1], KeyDtype).text)
        /\ (last.op = "csafetensors_get_tensor_by_index" /\ last.arg >= Len(TensorIndex)) =>
              last.ptr.null
        /\ st.n_metadata = Len(MetadataMembers)
        /\ \A j \in 1..Len(MetadataMembers) :
              /\ st.metadata[j].key = MetadataMembers[j].key
              /\ st.metadata[j].value = MetadataMembers[j].value.text

\* the same for headers whose keys hold no NUL byte
C11_Plain ==
    (\A i \in 1..Len(header.keys) : \A k \in 1..Len(header.keys[i]) : header.keys[i][k] # 0)
        => C11_DirectoryOrder

\* index 1 of a loaded directory of two tensors was asked for and is the second key
C11_Second ==
    /\ LoadedDescribed
    /\ Len(TensorIndex) = 2
    /\ HasMember(header, KeyMetadata)
    /\ last.op = "csafetensors_get_tensor_by_index"
    /\ last.arg = 1
    /\ ~last.ptr.null
    /\ st.tensors[last.ptr.at + 1].name = Bytes("a")

(***************************************************************************)
(* C12.  csafetensors_free is idempotent.  Every pointer and handle of the *)
(* structure refers to a resource that is still held, so a call releases   *)
(* nothing that was released before; after a call the structure is the     *)
(* all-zero structure of csafetensors_init, on which a further call        *)
(* releases nothing and changes nothing.                                   *)
(***************************************************************************)
C12_FreeIdempotent ==
    /\ Leaked.heap >= 0 /\ Leaked.files >= 0 /\ Leaked.maps >= 0
    /\ last.op = "csafetensors_free" =>
          /\ st = csafetensors_init
          /\ csafetensors_free(st) = st
          /\ Released(st) = NoResources
    /\ (last.op = "csafetensors_free" /\ last.again) => last.released = NoResources

\* csafetensors_free was called twice in a row on an object loaded by
\* csafetensors_mmap_from_file: the first call released the directory, the two handle
\* blocks, the mapping and the FILE, the second nothing
C12_Witness ==
    /\ last.op = "csafetensors_free"
    /\ last.again
    /\ last.arg = 5
    /\ last.released = NoResources
    /\ held = NoResources
    /\ st = csafetensors_init

\* the same after a load in copy mode: the two arrays and the storage
C12_CopyFreedTwice ==
    /\ last.op = "csafetensors_free"
    /\ last.again
    /\ last.arg = 3
    /\ held = NoResources

\* the input is one of GrowCases: its key is longer than the first buffer of
\* json_parse_string
GrowsString == \E c \in GrowCases : c.data = data

(***************************************************************************)
(* C13.  When one of the four loaders returns a code other than            *)
(* CSAFETENSORS_SUCCESS, every heap block, FILE handle and mapping it      *)
(* acquired during the call has been released: the call leaves nothing     *)
(* allocated, open or mapped.                                              *)
(***************************************************************************)
C13_FailureReleasesAll ==
    (last.op \in Loaders /\ last.ret # "CSAFETENSORS_SUCCESS") => last.acquired = NoResources

\* the same for the inputs whose strings fit the first buffer of json_parse_string
C13_ShortStrings == GrowsString \/ C13_FailureReleasesAll

\* a load failed on the failure of the realloc that grows a string, and holds a block
C13_LostBlock ==
    /\ GrowsString
    /\ last.op \in Loaders
    /\ last.ret = "CSAFETENSORS_ERROR_JSON_PARSE"
    /\ st.error_msg \in {"JSON parse error: Memory allocation failed",
                         "JSON parse error: Invalid unicode escape"}
    /\ last.acquired.heap = 1
    /\ Leaked.heap >= 1

\* the last call was a loader that went past its argument checks and did not succeed
FailedPastChecks ==
    /\ last.op \in Loaders
    /\ last.ret # "CSAFETENSORS_SUCCESS"
    /\ ~(last.op \in MemoryLoaders /\ last.ret = "CSAFETENSORS_ERROR_INVALID_ARGUMENT")

\* every accessor returns NULL on st for the arguments a caller may pass
AllNull ==
    /\ \A name \in NameArgs \cup {Bytes("a"), Bytes("format"), KeyMetadata} :
          csafetensors_get_tensor(st, name).null /\ csafetensors_get_metadata(st, name).null
    /\ \A index \in 0..MaxIndex : csafetensors_get_tensor_by_index(st, index).null
    /\ \A tensor \in TensorArgs : csafetensors_get_tensor_data(st, tensor).null

(***************************************************************************)
(* C14.  A loader that returns a code other than CSAFETENSORS_SUCCESS      *)
(* after its argument checks leaves no partial result in the structure:    *)
(* tensors, metadata and storage are NULL, n_tensors and n_metadata are 0, *)
(* and csafetensors_get_tensor, csafetensors_get_tensor_by_index,          *)
(* csafetensors_get_metadata and csafetensors_get_tensor_data return NULL  *)
(* for every argument, both right after the load and in every later call   *)
(* of an accessor on the structure.                                        *)
(***************************************************************************)
C14_NoPartialResult ==
    /\ FailedPastChecks =>
          /\ st.tensors = <<>> /\ st.metadata = <<>> /\ st.storage.null
          /\ st.n_tensors = 0 /\ st.n_metadata = 0
          /\ ~loaded
          /\ AllNull
    /\ (~loaded /\ last.op \in Accessors) => last.ptr.null /\ AllNull

\* csafetensors_get_tensor_data returned NULL on a structure left behind by a load that
\* failed in the validation of its second tensor
C14_Witness ==
    /\ ~loaded
    /\ Len(TensorIndex) = 2
    /\ st.error_msg = "Unknown dtype '%s' in tensor '%s'"
    /\ st.header_size > 0
    /\ last.op = "csafetensors_get_tensor_data"
    /\ last.ptr.null

\* a call of an operation that takes a const csafetensors_t *
ConstCall ==
    Validate \/ GetTensor \/ GetTensorByIndex \/ GetTensorData \/ GetMetadata \/ GetError

(***************************************************************************)
(* C15.  After a successful load no operation that takes a                 *)
(* const csafetensors_t * (csafetensors_get_tensor,                        *)
(* csafetensors_get_tensor_by_index, csafetensors_get_tensor_data,         *)
(* csafetensors_get_metadata, csafetensors_validate, csafetensors_get_error) *)
(* writes to a field of the structure: every such call leaves st as it was. *)
(***************************************************************************)
C15_ConstCallsDoNotWrite == [][(loaded /\ ConstCall) => st' = st]_vars

\* the same for the calls other than csafetensors_validate
C15_AccessorsDoNotWrite ==
    [][(loaded /\ (GetTensor \/ GetTensorByIndex \/ GetTensorData \/ GetMetadata \/ GetError))
          => st' = st]_vars

\* csafetensors_validate has returned false on a loaded structure and left its message
C15_MessageWritten ==
    /\ loaded
    /\ last.op = "csafetensors_validate"
    /\ last.ret = "false"
    /\ st.error_msg = "Tensor '%s': data offset exceeds buffer size"

\* the two loads of the buffer from memory, on a fresh structure
CopyLoad == csafetensors_load_from_memory(data, Len(data), csafetensors_init, fail, build)

MapLoad == csafetensors_mmap_from_memory(data, Len(data), csafetensors_init, fail, build)

\* header, directory and metadata of two loaded structures are the same
SameDirectory(a, b) ==
    /\ a.header_size = b.header_size
    /\ a.n_tensors = b.n_tensors /\ a.tensors = b.tensors
    /\ a.n_metadata = b.n_metadata /\ a.metadata = b.metadata

\* c holds the bytes input[8+H, size) in owned storage
CopyPayload(c) ==
    /\ ~c.mmaped
    /\ c.storage_size = Len(data) - 8 - c.header_size
    /\ c.storage_size > 0 => ~c.storage.null
    /\ c.storage.bytes = SubSeq(data, 8 + c.header_size + 1, Len(data))
    /\ c.databuffer_addr.null

\* m holds the view data + 8 + H of the same length and no storage
MapPayload(m) ==
    /\ m.mmaped
    /\ m.storage.null
    /\ m.mmap_addr = BufPtr(0) /\ m.mmap_size = Len(data)
    /\ m.databuffer_addr = BufPtr(8 + m.header_size)
    /\ m.databuffer_size = Len(data) - 8 - m.header_size

\* the copy-mode result (status cr, structure c) against the map-mode result (mr, m):
\* what the two modes hold when both succeed
SameLoad(cr, c, mr, m) ==
    (cr = "CSAFETENSORS_SUCCESS" /\ mr = "CSAFETENSORS_SUCCESS") =>
        SameDirectory(c, m) /\ CopyPayload(c) /\ MapPayload(m)

\* the statuses differ because the malloc of the payload copy failed
CopyFailed(cr, c, mr) ==
    /\ fail # 0
    /\ cr = "CSAFETENSORS_ERROR_MEMORY_ALLOCATION"
    /\ c.error_msg = "Memory allocation failed"
    /\ mr = "CSAFETENSORS_SUCCESS"

(***************************************************************************)
(* C16.  For every buffer csafetensors_load_from_memory and                *)
(* csafetensors_mmap_from_memory return the same status, and on success    *)
(* the same header_size, directory and metadata and a payload of length    *)
(* size - 8 - H holding input[8+H, size): copy mode in owned storage with  *)
(* mmaped false, map mode as the view data + 8 + H with mmaped true and    *)
(* storage NULL.  (The call just made is compared with the other loader    *)
(* applied to the same buffer.)                                            *)
(***************************************************************************)
C16_ModesAgree ==
    /\ last.op = "csafetensors_load_from_memory" =>
          /\ last.ret = MapLoad.ret
          /\ SameLoad(last.ret, st, MapLoad.ret, MapLoad.st)
    /\ last.op = "csafetensors_mmap_from_memory" =>
          /\ CopyLoad.ret = last.ret
          /\ SameLoad(CopyLoad.ret, CopyLoad.st, last.ret, st)

\* C16 as amended: the statuses are the same unless the malloc of the payload copy fails,
\* where copy mode returns CSAFETENSORS_ERROR_MEMORY_ALLOCATION and map mode succeeds;
\* the rest as above
C16_ModesAgreeUnlessCopyFails ==
    /\ last.op = "csafetensors_load_from_memory" =>
          /\ last.ret = MapLoad.ret \/ CopyFailed(last.ret, st, MapLoad.ret)
          /\ SameLoad(last.ret, st, MapLoad.ret, MapLoad.st)
    /\ last.op = "csafetensors_mmap_from_memory" =>
          /\ CopyLoad.ret = last.ret \/ CopyFailed(CopyLoad.ret, CopyLoad.st, last.ret)
          /\ SameLoad(CopyLoad.ret, CopyLoad.st, last.ret, st)

\* a buffer with two tensors, metadata and six payload bytes was loaded in copy mode
C16_Witness ==
    /\ last.op = "csafetensors_load_from_memory"
    /\ last.ret = "CSAFETENSORS_SUCCESS"
    /\ MapLoad.ret = "CSAFETENSORS_SUCCESS"
    /\ st.n_tensors = 2 /\ st.n_metadata = 2
    /\ st.storage.bytes = Payload(SmallPayload)
    /\ MapLoad.st.databuffer_size = SmallPayload

\* the payload copy failed where the map succeeds
C16_CopyFailed ==
    /\ last.op = "csafetensors_load_from_memory"
    /\ last.ret = "CSAFETENSORS_ERROR_MEMORY_ALLOCATION"
    /\ MapLoad.ret = "CSAFETENSORS_SUCCESS"
    /\ MapLoad.st.n_tensors = 1

\* csafetensors_get_tensor_data was called on the loaded structure with one of its descriptors
DataAsked ==
    /\ loaded
    /\ last.op = "csafetensors_get_tensor_data"
    /\ \E k \in 1..st.n_tensors : st.tensors[k] = last.arg

\* the payload length of the loaded structure, whatever the mode
LoadedPayload == Len(data) - 8 - st.header_size

(***************************************************************************)
(* C17.  For every successfully loaded object and every descriptor of it,  *)
(* csafetensors_get_tensor_data returns payload base + data_offset_begin,  *)
(* whatever the payload length is (the offset is not compared with it).    *)
(***************************************************************************)
C17_DataUnchecked ==
    DataAsked => ~last.ptr.null /\ BigEq(BigOf(last.ptr.at), last.arg.data_offset_begin)

\* C17 as amended: the pointer is payload base + data_offset_begin when
\* data_offset_begin <= payload length, and NULL when data_offset_begin > payload length;
\* data_offset_end is not compared
C17_DataCheckedAgainstBegin ==
    DataAsked =>
        /\ BigLe(last.arg.data_offset_begin, BigOf(LoadedPayload)) =>
              ~last.ptr.null /\ BigEq(BigOf(last.ptr.at), last.arg.data_offset_begin)
        /\ BigLt(BigOf(LoadedPayload), last.arg.data_offset_begin) => last.ptr.null

\* a pointer was returned for a tensor whose end offset lies beyond the payload
C17_Witness ==
    /\ DataAsked
    /\ ~last.ptr.null
    /\ last.ptr.at = 2
    /\ BigLt(BigOf(LoadedPayload), last.arg.data_offset_end)

\* NULL was returned for a begin offset beyond the payload
C17_NullReturned ==
    /\ DataAsked
    /\ last.ptr.null
    /\ last.arg.data_offset_begin = U64(7)
    /\ LoadedPayload = SmallPayload

\* a load from memory of a buffer of 16 bytes or more with no allocation failing
PlainLoad == last.op \in MemoryLoaders /\ Len(data) >= 16 /\ fail = 0

\* the header text is a JSON value that is no object
RootNotObject ==
    header.t = "text" /\ header.text \in {Bytes("[1,2,3,4,5,6]"), Bytes("\"abcdefgh\"")}

\* The header text is valid JSON that the reader accepts: a rendered description with no
\* repeated key, or a root that is no object
ReaderAccepts == (Described /\ ~HasDuplicateKey(header)) \/ RootNotObject

(***************************************************************************)
(* C18.  When the header is syntactically valid JSON but fails header      *)
(* validation (root not an object, tensor value not an object, missing     *)
(* dtype, shape or data_offsets, unknown dtype, too many dimensions, bad    *)
(* offsets) the loader returns CSAFETENSORS_ERROR_INVALID_HEADER;          *)
(* CSAFETENSORS_ERROR_JSON_PARSE is returned only when the JSON reader     *)
(* itself fails.                                                           *)
(***************************************************************************)
C18_InvalidHeaderCode ==
    PlainLoad =>
        /\ (ReaderAccepts /\ Failed) => last.ret = "CSAFETENSORS_ERROR_INVALID_HEADER"
        /\ last.ret = "CSAFETENSORS_ERROR_JSON_PARSE" => last.reader /\ ~ReaderAccepts

\* a header the reader accepts was rejected for its unknown dtype with the JSON_PARSE code
C18_ParseCodeForValidation ==
    /\ PlainLoad
    /\ ReaderAccepts
    /\ st.error_msg = "Unknown dtype '%s' in tensor '%s'"
    /\ last.ret = "CSAFETENSORS_ERROR_JSON_PARSE"

\* the header texts of the model that are no JSON
MalformedTexts ==
    {"{invalid json}", "{\"a\":", "{\"a\":{\"dtype\":\"U8\",}}", "nul1234", "{\"a\" 1}",
     "{\"a\":[1 2]}", "{\"a\":1e}", "{\"a\":\"\\q\"}", "{\"k\":\"\\ud83dx\"}"}

Malformed == header.t = "text" /\ \E s \in MalformedTexts : header.text = Bytes(s)

\* the size prefix is larger than the data that follows it
PrefixOverData == Len(data) >= 8 /\ BigLt(BigOf(Len(data) - 8), PrefixValue)

\* some tensor entry has no "dtype" string
LacksDtype ==
    Described /\ \E k \in 1..Len(TensorEntries) : Member(TensorEntries[k], KeyDtype).t # "string"

\* some tensor entry has a "dtype" string outside the known set
UnknownDtype ==
    Described /\ \E k \in 1..Len(TensorEntries) :
        /\ Member(TensorEntries[k], KeyDtype).t = "string"
        /\ parse_dtype_string(Member(TensorEntries[k], KeyDtype).text) = "none"

(***************************************************************************)
(* C19.  csafetensors_load_from_memory returns                             *)
(* CSAFETENSORS_ERROR_JSON_PARSE for every input of at least 16 bytes      *)
(* whose header is rejected: a size prefix larger than the data, malformed *)
(* JSON text, a tensor without a "dtype" string, a dtype string outside    *)
(* the known set; and whenever the header is rejected, that is the code.   *)
(***************************************************************************)
C19_RejectedIsJsonParse ==
    (last.op = "csafetensors_load_from_memory" /\ Len(data) >= 16) =>
        /\ (PrefixOverData \/ Malformed \/ LacksDtype \/ UnknownDtype) =>
              last.ret = "CSAFETENSORS_ERROR_JSON_PARSE"
        /\ last.ret \in {"CSAFETENSORS_SUCCESS", "CSAFETENSORS_ERROR_JSON_PARSE",
                         "CSAFETENSORS_ERROR_MEMORY_ALLOCATION"}
        /\ last.ret = "CSAFETENSORS_ERROR_MEMORY_ALLOCATION" =>
              MapLoad.ret = "CSAFETENSORS_SUCCESS"

\* a load from memory was rejected for a dtype string outside the known set
C19_Witness ==
    /\ last.op = "csafetensors_load_from_memory"
    /\ Len(data) >= 16
    /\ UnknownDtype
    /\ ~LacksDtype
    /\ last.ret = "CSAFETENSORS_ERROR_JSON_PARSE"
    /\ st.error_msg = "Unknown dtype '%s' in tensor '%s'"

\* the other three classes
C19_PrefixRejected ==
    /\ last.op = "csafetensors_load_from_memory" /\ Len(data) >= 16
    /\ PrefixOverData /\ last.ret = "CSAFETENSORS_ERROR_JSON_PARSE"

C19_MalformedRejected ==
    /\ last.op = "csafetensors_load_from_memory" /\ Len(data) >= 16
    /\ Malformed /\ last.ret = "CSAFETENSORS_ERROR_JSON_PARSE"

C19_DtypeMissing ==
    /\ last.op = "csafetensors_load_from_memory" /\ Len(data) >= 16
    /\ LacksDtype /\ last.ret = "CSAFETENSORS_ERROR_JSON_PARSE"

\* an allocation made by the last call returned NULL
AllocationFailed == last.op \in Loaders /\ fail # 0 /\ fail <= last.allocs

(***************************************************************************)
(* C20.  Whenever a heap allocation fails during a load (in the JSON       *)
(* reader, in the allocation of the tensor or metadata directory, in the   *)
(* copy of the payload) the loader returns                                 *)
(* CSAFETENSORS_ERROR_MEMORY_ALLOCATION and no other code.                 *)
(***************************************************************************)
C20_AllocationFailureCode ==
    AllocationFailed => last.ret = "CSAFETENSORS_ERROR_MEMORY_ALLOCATION"

\* an allocation of the reader failed and the load returned the JSON_PARSE code
C20_ReaderAllocation ==
    /\ AllocationFailed
    /\ last.ret = "CSAFETENSORS_ERROR_JSON_PARSE"
    /\ st.error_msg = "JSON parse error: Memory allocation failed"

\* the calloc of a directory failed and the load returned the JSON_PARSE code
C20_DirectoryAllocation ==
    /\ AllocationFailed
    /\ last.ret = "CSAFETENSORS_ERROR_JSON_PARSE"
    /\ st.error_msg = "Memory allocation failed"

\* the malloc of the payload copy failed and the load returned the MEMORY_ALLOCATION code
C20_CopyAllocation ==
    /\ AllocationFailed
    /\ last.ret = "CSAFETENSORS_ERROR_MEMORY_ALLOCATION"
    /\ fail = last.allocs

\* the hexadecimal digits and their values
HexChars == (48..57) \cup (65..70) \cup (97..102)

HexOf(c) == IF c <= 57 THEN c - 48 ELSE IF c <= 70 THEN c - 55 ELSE c - 87

\* position i of the text s starts a \u escape
EscapeAt(s, i) == i >= 1 /\ i + 1 <= Len(s) /\ s[i] = 92 /\ s[i + 1] = 117 /\ (i = 1 \/ s[i - 1] # 92)

\* the escape at i has its four hexadecimal digits
FourHex(s, i) == i + 5 <= Len(s) /\ \A k \in 2..5 : s[i + k] \in HexChars

CodeAt(s, i) == 4096 * HexOf(s[i + 2]) + 256 * HexOf(s[i + 3]) + 16 * HexOf(s[i + 4]) + HexOf(s[i + 5])

HighSurrogate(s, i) == EscapeAt(s, i) /\ FourHex(s, i) /\ CodeAt(s, i) \in 55296..56319

LowSurrogate(s, i) == EscapeAt(s, i) /\ FourHex(s, i) /\ CodeAt(s, i) \in 56320..57343

\* the escape at i is a low surrogate that no high surrogate precedes
LoneLow(s, i) == LowSurrogate(s, i) /\ ~HighSurrogate(s, i - 6)

\* the escape at i is ill-formed in one of the other ways: digits missing, or a high
\* surrogate that no low surrogate follows
BrokenEscape(s, i) ==
    EscapeAt(s, i) /\ (~FourHex(s, i) \/ (HighSurrogate(s, i) /\ ~LowSurrogate(s, i + 6)))

\* a load from memory of a text with escapes
EscapeLoad == last.op \in MemoryLoaders /\ header.t = "text" /\ header \in {c.header : c \in EscapeCases}

(***************************************************************************)
(* C21.  The JSON reader fails, and so the load fails, for every string    *)
(* literal that contains an invalid \u escape: fewer than four hex digits  *)
(* or a non-hex digit, a high surrogate (D800-DBFF) not followed by a \u   *)
(* low surrogate, a low surrogate outside DC00-DFFF after a high one, or a *)
(* lone low surrogate (DC00-DFFF) not preceded by a high surrogate.        *)
(***************************************************************************)
C21_InvalidEscapeFails ==
    (EscapeLoad /\ \E i \in 1..Len(header.text) :
                        BrokenEscape(header.text, i) \/ LoneLow(header.text, i))
        => last.ret = "CSAFETENSORS_ERROR_JSON_PARSE"

\* the statement without the lone low surrogates, and its converse
C21_BrokenEscapeFails ==
    EscapeLoad =>
        /\ (\E i \in 1..Len(header.text) : BrokenEscape(header.text, i))
              => (last.ret = "CSAFETENSORS_ERROR_JSON_PARSE"
                  /\ st.error_msg = "JSON parse error: Invalid unicode escape")
        /\ (\A i \in 1..Len(header.text) : ~BrokenEscape(header.text, i))
              => last.ret = "CSAFETENSORS_SUCCESS"

\* a lone low surrogate was read as a string of three bytes and the load succeeded
C21_LoneLowAccepted ==
    /\ EscapeLoad
    /\ \E i \in 1..Len(header.text) : LoneLow(header.text, i)
    /\ \A i \in 1..Len(header.text) : ~BrokenEscape(header.text, i)
    /\ last.ret = "CSAFETENSORS_SUCCESS"
    /\ st.n_metadata = 1
    /\ st.metadata[1].value = <<237, 176, 128>>

\* csafetensors_shape_size and the byte size of csafetensors_validate are exact for t
SizeExact(t) ==
    /\ t.n_dims = 0 => csafetensors_shape_size(t) = U64(1)
    /\ ~NonEmpty(t) => csafetensors_shape_size(t) = U64Zero
    /\ (t.n_dims > 0 /\ NonEmpty(t)) =>
          BigEq(csafetensors_shape_size(t), ExactCount(t.shape, t.n_dims))
    /\ BigEq(TensorSize(t), ExactBytes(t))

(***************************************************************************)
(* C22.  For every descriptor a load can produce, csafetensors_shape_size  *)
(* returns 1 when n_dims = 0, 0 when any dimension is 0, and otherwise     *)
(* exactly the mathematical product of the dimensions (no wraparound of    *)
(* the size_t product), and the byte size used by csafetensors_validate is *)
(* that count times the dtype size.                                        *)
(***************************************************************************)
C22_ShapeSizeExact == loaded => \A k \in 1..st.n_tensors : SizeExact(st.tensors[k])

\* the statement for the descriptors whose exact byte size fits a size_t
C22_ExactWithinWord ==
    loaded => \A k \in 1..st.n_tensors :
        BigLe(ExactBytes(st.tensors[k]), U64Max) => SizeExact(st.tensors[k])

\* a loaded descriptor whose dimensions multiply to 2^64 and whose shape size is 0
C22_Wrapped ==
    /\ loaded
    /\ st.n_tensors = 1
    /\ st.tensors[1].n_dims = 2
    /\ NonEmpty(st.tensors[1])
    /\ BigLt(U64Max, ExactCount(st.tensors[1].shape, 2))
    /\ csafetensors_shape_size(st.tensors[1]) = U64Zero

\* loaded descriptors of every kind: scalar, empty, several dimensions
C22_Kinds ==
    /\ loaded
    /\ \E k \in 1..st.n_tensors : st.tensors[k].n_dims >= 2 /\ NonEmpty(st.tensors[k])
                                     /\ SizeExact(st.tensors[k])

\* the thirteen dtype strings and the element size of each
DtypeNames ==
    {"BOOL", "U8", "I8", "U16", "I16", "F16", "BF16", "U32", "I32", "F32", "F64", "U64", "I64"}

ElementSize ==
    [n \in DtypeNames |->
        IF n \in {"BOOL", "U8", "I8"} THEN 1
        ELSE IF n \in {"U16", "I16", "F16", "BF16"} THEN 2
        ELSE IF n \in {"U32", "I32", "F32"} THEN 4 ELSE 8]

\* the "dtype" string of the entry is one of the thirteen
NamedDtype(e) ==
    Member(e, KeyDtype).t = "string" /\ \E n \in DtypeNames : Member(e, KeyDtype).text = Bytes(n)

\* descriptor d carries the dtype that the entry e names
DtypeOf(d, e) ==
    /\ NamedDtype(e)
    /\ Bytes(csafetensors_dtype_name(d.dtype)) = Member(e, KeyDtype).text
    /\ \E n \in DtypeNames :
          /\ Bytes(n) = Member(e, KeyDtype).text
          /\ csafetensors_dtype_size(d.dtype) = ElementSize[n]

\* a load from memory of a header of the dtype cases, which differ in the dtype only
DtypeLoad ==
    /\ last.op \in MemoryLoaders
    /\ header \in {c.header : c \in DtypeCases \cup {NulDtypeCase}}

(***************************************************************************)
(* C23.  A tensor's "dtype" string is accepted if and only if it is        *)
(* exactly one of BOOL, U8, I8, U16, I16, F16, BF16, U32, I32, F32, F64,   *)
(* U64, I64; for the dtype d it yields, csafetensors_dtype_name(d) returns *)
(* that same string and csafetensors_dtype_size(d) returns                 *)
(* 1,1,1,2,2,2,2,4,4,4,8,8,8 respectively; any other string makes the load *)
(* fail.                                                                   *)
(***************************************************************************)
C23_DtypeExact ==
    DtypeLoad =>
        /\ last.ret = "CSAFETENSORS_SUCCESS" <=> NamedDtype(TensorEntries[1])
        /\ last.ret = "CSAFETENSORS_SUCCESS" =>
              st.n_tensors = 1 /\ DtypeOf(st.tensors[1], TensorEntries[1])

\* the statement for the dtype strings that hold no NUL byte
C23_ExactWithoutNul ==
    (DtypeLoad /\ \A i \in 1..Len(Member(TensorEntries[1], KeyDtype).text) :
                      Member(TensorEntries[1], KeyDtype).text[i] # 0)
        => /\ last.ret = "CSAFETENSORS_SUCCESS" <=> NamedDtype(TensorEntries[1])
           /\ last.ret = "CSAFETENSORS_SUCCESS" =>
                 st.n_tensors = 1 /\ DtypeOf(st.tensors[1], TensorEntries[1])

\* the string "U8", NUL, "x" was accepted as U8
C23_NulAccepted ==
    /\ DtypeLoad
    /\ header = NulDtypeCase.header
    /\ last.ret = "CSAFETENSORS_SUCCESS"
    /\ st.tensors[1].dtype = "UINT8"

\* a load that yields BF16, of size 2
C23_Named ==
    /\ DtypeLoad
    /\ last.ret = "CSAFETENSORS_SUCCESS"
    /\ Member(TensorEntries[1], KeyDtype).text = Bytes("BF16")
    /\ csafetensors_dtype_size(st.tensors[1].dtype) = 2

\* the half element was converted to float and back
RoundTrip == Len(data) = 2 /\ last.op = "csafetensors_f32_to_f16"

\* the pattern is a NaN: exponent field 31 and a mantissa other than 0
HalfNaN(h) == (h % 32768) \div 1024 = 31 /\ h % 1024 # 0

(***************************************************************************)
(* C24.  For every one of the 2^16 half-precision bit patterns h (zeros,   *)
(* subnormals, normals, infinities and NaNs of either sign),               *)
(* csafetensors_f32_to_f16(csafetensors_f16_to_f32(h)) = h.                *)
(***************************************************************************)
C24_RoundTrip == RoundTrip => last.ret = HalfWord(data)

\* C24 as the code has it: the round trip gives back every pattern that is no NaN, and
\* turns a NaN into the NaN of its sign whose mantissa is 0x200
C24_RoundTripButNaN ==
    RoundTrip =>
        /\ ~HalfNaN(HalfWord(data)) => last.ret = HalfWord(data)
        /\ HalfNaN(HalfWord(data)) => last.ret = (HalfWord(data) \div 32768) * 32768 + 32256

\* the largest negative subnormal went through the float 0xB87FC000 and came back
C24_Witness ==
    /\ RoundTrip
    /\ HalfWord(data) = 33791
    /\ last.arg = Float(1, 947896320)
    /\ last.ret = 33791

\* the NaN 0x7C01 came back as 0x7E00
C24_PayloadLost == RoundTrip /\ HalfWord(data) = 31745 /\ last.ret = 32256

\* The half nearest to a finite float of magnitude M * 2^(e - 150), M = mant + 2^23, e >= 1.
\* The magnitudes of the halves are ordered as their bit patterns k = 0..0x7C00, the value of
\* pattern k being k * 2^-24 below 0x400 and (1024 + k % 1024) * 2^(k \div 1024 - 25) from
\* there on, which gives 0x7C00 (Inf) the value 2^16.  The float lies between the patterns
\* q and q + 1, at the fraction r / 2^shift of the way, and goes to the nearer of the two,
\* to the even one when it is halfway.
Nearest(q, r, shift) ==
    IF 2 * r > Pow2(shift) \/ (2 * r = Pow2(shift) /\ q % 2 = 1) THEN q + 1 ELSE q

\* the float is halfway between two halves
Halfway(f) ==
    /\ ExpField(f.bits) \in 1..254
    /\ ExpField(f.bits) - 112 < 31
    /\ IF ExpField(f.bits) - 112 >= 1 THEN MantField(f.bits) % 8192 = 4096
       ELSE /\ 126 - ExpField(f.bits) <= 24
            /\ (MantField(f.bits) + 8388608) % Pow2(126 - ExpField(f.bits))
                  = Pow2(125 - ExpField(f.bits))

\* the pattern q of the half just below a float halfway between two halves
LowerPattern(e, mant) ==
    IF e - 112 >= 1 THEN (e - 112) * 1024 + mant \div 8192
    ELSE (mant + 8388608) \div Pow2(126 - e)

NearestMagnitude(e, mant) ==
    IF e - 112 >= 31 THEN 31744
    ELSE IF e - 112 >= 1
    THEN Nearest((e - 112) * 1024 + mant \div 8192, mant % 8192, 13)
    ELSE IF 126 - e > 25 THEN 0
    ELSE Nearest((mant + 8388608) \div Pow2(126 - e), (mant + 8388608) % Pow2(126 - e), 126 - e)

\* the IEEE 754 conversion of a float to half, round to nearest even
NearestEvenHalf(f) ==
    IF ExpField(f.bits) = 0 THEN f.sign * 32768
    ELSE IF ExpField(f.bits) = 255 /\ MantField(f.bits) = 0 THEN f.sign * 32768 + 31744
    ELSE f.sign * 32768 + NearestMagnitude(ExpField(f.bits), MantField(f.bits))

FloatNaN(f) == ExpField(f.bits) = 255 /\ MantField(f.bits) # 0

(***************************************************************************)
(* C25.  For every 32-bit float bit pattern, csafetensors_f32_to_f16       *)
(* returns the IEEE 754 round-to-nearest-even half: a value exactly        *)
(* halfway between two halves goes to the one with even mantissa, a finite *)
(* value beyond the half range gives sign|0x7C00, Inf and NaN stay Inf and *)
(* NaN, and a value below the half subnormal range gives signed zero or    *)
(* the nearest subnormal.                                                  *)
(***************************************************************************)
C25_NearestEven ==
    last.op = "csafetensors_f32_to_f16" =>
        IF FloatNaN(last.arg) THEN HalfNaN(last.ret) /\ last.ret \div 32768 = last.arg.sign
        ELSE last.ret = NearestEvenHalf(last.arg)

\* what the code does: the nearest half, the larger of the two when the float is halfway
C25_NearestAway ==
    (last.op = "csafetensors_f32_to_f16" /\ ~FloatNaN(last.arg)) =>
        /\ ~Halfway(last.arg) => last.ret = NearestEvenHalf(last.arg)
        /\ Halfway(last.arg) =>
              last.ret = last.arg.sign * 32768
                            + LowerPattern(ExpField(last.arg.bits), MantField(last.arg.bits)) + 1

\* 0x3F801000, halfway between the halves 0x3C00 and 0x3C01, was converted to 0x3C01
C25_TieWentUp ==
    /\ last.op = "csafetensors_f32_to_f16"
    /\ last.arg = Float(0, 1065357312)
    /\ Halfway(last.arg)
    /\ NearestEvenHalf(last.arg) = 15360
    /\ last.ret = 15361

\* 0x33000000 = 2^-25, halfway between zero and the smallest subnormal, was converted to 1
C25_SmallTieWentUp ==
    /\ last.op = "csafetensors_f32_to_f16"
    /\ last.arg = Float(0, 855638016)
    /\ Halfway(last.arg)
    /\ NearestEvenHalf(last.arg) = 0
    /\ last.ret = 1

\* the places of a call in a sequence of calls
Positions(events, name) == {i \in 1..Len(events) : events[i] = name}

\* munmap and fclose are called once each, munmap first
UnmapThenClose(events) ==
    /\ Cardinality(Positions(events, "munmap")) = 1
    /\ Cardinality(Positions(events, "fclose")) = 1
    /\ \A i \in Positions(events, "munmap"), j \in Positions(events, "fclose") : i < j

(***************************************************************************)
(* C27.  For an object loaded by csafetensors_mmap_from_file on POSIX, the *)
(* file handle stays open for as long as the mapping exists: on every path *)
(* - success followed by csafetensors_free, and every failure path inside  *)
(* the loader after the mapping was created - munmap happens before the    *)
(* file is closed, and each of the two happens exactly once.               *)
(***************************************************************************)
C27_UnmapBeforeClose ==
    /\ st._internal_mmap => st._internal_file
    /\ held.maps <= held.files
    /\ last.op = "csafetensors_mmap_from_file" =>
          /\ last.ret = "CSAFETENSORS_SUCCESS" =>
                /\ last.events = <<"fopen", "mmap">>
                /\ st._internal_mmap
                /\ last.acquired.maps = 1 /\ last.acquired.files = 1
          /\ (last.ret # "CSAFETENSORS_SUCCESS" /\ Positions(last.events, "mmap") # {}) =>
                /\ UnmapThenClose(last.events)
                /\ last.acquired.maps = 0 /\ last.acquired.files = 0
    /\ last.op = "csafetensors_free" =>
          /\ last.released.maps = 1 => UnmapThenClose(last.events)
          /\ last.released.maps = 0 => Positions(last.events, "munmap") = {}
          /\ last.again => last.events = <<>>
          /\ ~st._internal_mmap /\ ~st._internal_file

\* a file was mapped and loaded and csafetensors_free has removed the mapping, then closed
\* the file
C27_Witness ==
    /\ last.op = "csafetensors_free"
    /\ last.released.maps = 1
    /\ last.released.files = 1
    /\ last.events = <<"munmap", "fclose">>
    /\ held = NoResources

\* the loader failed on a header it had mapped, and removed the mapping before it closed
\* the file
C27_FailedAfterMapping ==
    /\ last.op = "csafetensors_mmap_from_file"
    /\ last.ret = "CSAFETENSORS_ERROR_JSON_PARSE"
    /\ last.events = <<"fopen", "mmap", "munmap", "fclose">>

\* the handle blocks could not be allocated
C27_FailedOnHandles ==
    /\ last.op = "csafetensors_mmap_from_file"
    /\ last.ret = "CSAFETENSORS_ERROR_MEMORY_ALLOCATION"
    /\ last.events = <<"fopen", "mmap", "munmap", "fclose">>

(***************************************************************************)
(* C28.  After any sequence of loader calls and csafetensors_free calls on *)
(* one csafetensors_t that ends with csafetensors_free, no heap buffer,    *)
(* memory mapping or file handle acquired by those calls remains           *)
(* unreleased; in particular a loader called on a struct that still holds  *)
(* a loaded object (no csafetensors_free in between) does not lose the     *)
(* previously held storage, directory, mapping or file handle.             *)
(***************************************************************************)
C28_NothingLeftAfterFree == last.op = "csafetensors_free" => held = NoResources

\* A call loses nothing when no allocation fails and the structure it is given holds
\* nothing: what is held and out of reach of csafetensors_free stays the same
C28_LoadIntoEmpty ==
    [][(fail = 0 /\ Total(Released(st)) = 0) => Minus(held', Released(st')) = Leaked]_vars

\* a mapped file was loaded over by a second load, and csafetensors_free has run: the
\* mapping, the FILE handle and the heap blocks of the first load are still held
C28_Overwritten ==
    /\ last.op = "csafetensors_free"
    /\ fail = 0
    /\ held.maps = 1
    /\ held.files = 1
    /\ held.heap >= 3

(***************************************************************************)
(* The header region of the buffer and the activations of the reader.      *)
(***************************************************************************)
\* the offset after the last header byte: 8 + H, for a prefix that passed the checks
RegionEnd == 8 + data[1] + 256 * data[2] + 65536 * data[3] + 16777216 * data[4]

InReader == run.phase \in {"reader", "parsed"}

\* the number of activations of fn
Active(fn) == Cardinality({k \in 1..Len(run.stack) : run.stack[k].fn = fn})

(***************************************************************************)
(* C26.  During any load the JSON reader dereferences only offsets of the  *)
(* header region [8, 8 + H): it reads no byte of the payload, no byte past *)
(* the buffer, and its cursor stays between the start and the end of the   *)
(* region.                                                                 *)
(***************************************************************************)
C26_ReadsWithinHeader ==
    InReader =>
        /\ RegionEnd <= Len(data)
        /\ \A i \in run.reads : 8 <= i /\ i < RegionEnd
        /\ 8 <= run.p.pos /\ run.p.pos <= RegionEnd

\* the reader read the last byte of a header that ends inside a token, payload after it
C26_Witness ==
    /\ run.phase = "reader"
    /\ (RegionEnd - 1) \in run.reads
    /\ run.p.pos = RegionEnd
    /\ RegionEnd < Len(data)
    /\ Len(run.stack) > 2

\* a literal cut by the end of the header: "nu" are its last bytes, "ll" is payload
C26_CutLiteral ==
    /\ run.phase = "reader"
    /\ run.p.error = "Invalid JSON value"
    /\ run.p.pos = RegionEnd - 2
    /\ SubSeq(data, run.p.pos + 1, run.p.pos + 4) = Bytes("null")
    /\ run.reads = {run.p.pos}

\* a \u escape cut by the end of the header
C26_CutEscape ==
    /\ run.phase = "reader"
    /\ run.p.error = "Invalid unicode escape"
    /\ RegionEnd - run.p.pos < 4
    /\ \E i \in run.reads : data[i + 1] = 92 /\ data[i + 2] = 117

(***************************************************************************)
(* C29.  Every load from memory returns.  Each iteration of a loop of the  *)
(* JSON reader that does not return consumes at least one header byte (the *)
(* cursor at the start of an iteration is at least the cursor at the entry *)
(* of the loop plus the number of iterations completed) and the two loops  *)
(* over the parsed tree make at most one iteration per key of the root and *)
(* per key of the metadata object.                                         *)
(***************************************************************************)
C29_IterationsConsume ==
    run.phase = "reader" =>
        \A k \in 1..Len(run.stack) :
            /\ run.stack[k].mark >= run.stack[k].enter + run.stack[k].iters
            /\ run.stack[k].mark <= RegionEnd

C29_PassesBounded ==
    run.phase \in {"count", "fill"} =>
        /\ run.i <= Len(run.ret.pairs)
        /\ run.j > 0 => /\ run.i < Len(run.ret.pairs)
                        /\ run.j <= Len(run.ret.pairs[run.i + 1].value.pairs)

C29_Returns == (run.phase # "idle") ~> (run.phase = "idle")

C29_Terminates == []C29_IterationsConsume /\ []C29_PassesBounded /\ C29_Returns

\* the third pair of an object is being read inside another object
C29_Witness ==
    /\ run.phase = "reader"
    /\ \E k \in 2..Len(run.stack) :
        /\ run.stack[k].fn = "json_parse_object"
        /\ run.stack[k].iters = 2
        /\ run.stack[k].mark > run.stack[k].enter + 2

\* a load that went through the reader and both loops has returned
C29_Returned ==
    /\ run.phase = "idle"
    /\ last.op \in MemoryLoaders
    /\ last.ret = "CSAFETENSORS_SUCCESS"
    /\ st.n_tensors >= 1

\* the loop over the pairs of "__metadata__" is at its second pair
C29_InMetadata == run.phase = "fill" /\ run.j = 2

(***************************************************************************)
(* C30.  The number of json_parse_value calls active at the same time      *)
(* (and of json_free_value calls when the tree is released) stays below a  *)
(* fixed bound, whatever the nesting of arrays and objects in the header.  *)
(***************************************************************************)
\* the activations a header of the format needs: the root, a tensor, its shape, a number
DepthBound == 4

C30_DepthBounded == Active("json_parse_value") <= DepthBound

\* the calls of json_free_value active at the same time when v is released: one for v
\* and those the deepest of its items or values needs
RECURSIVE FreeDepth(_)
FreeDepth(v) ==
    IF v.type = "array" /\ Len(v.items) > 0
    THEN 1 + Max({FreeDepth(v.items[i]) : i \in 1..Len(v.items)})
    ELSE IF v.type = "object" /\ Len(v.pairs) > 0
    THEN 1 + Max({FreeDepth(v.pairs[i].value) : i \in 1..Len(v.pairs)})
    ELSE IF v.type = "NULL" THEN 0
    ELSE 1

C30_ReleaseBounded == run.phase = "parsed" => FreeDepth(run.ret) <= DepthBound

\* MaxNest arrays inside one another: one json_parse_value per array is active
C30_DepthFollowsNesting ==
    /\ run.phase = "reader"
    /\ Active("json_parse_array") = MaxNest
    /\ Active("json_parse_value") = MaxNest
====
